---- MODULE Spec2Model ----
(***************************************************************************)
(* A model of the AstroAura blog automation: the index/feed synchronizers  *)
(* (blog/generate_blog_post.py, automation/blog_generator.py,              *)
(* automation/authentic_blog_generator.py,                                 *)
(* automation/enhanced_blog_generator.py, automation/rss_generator.py),   *)
(* the slug routines, the moon phase computation and the fallback content  *)
(* renderers.                                                              *)
(*                                                                         *)
(* The module holds several specifications over one set of variables; each *)
(* specification drives one part of the program and leaves the variables   *)
(* of the other parts at their initial values.                             *)
(***************************************************************************)
EXTENDS Integers, Sequences, FiniteSets, TLC

VARIABLES
    posts_index,  \* blog/posts_index.json
    sitemap,      \* sitemap.xml
    rss_xml,      \* blog/rss.xml
    feed_xml,     \* blog/feed.xml
    atom_xml,     \* blog/atom.xml
    feed_json,    \* blog/feed.json
    last_call,    \* the call that completed last, its argument, and whether it repeats the call before it
    writer,       \* the generator class a run of the capacity specification publishes with
    published,    \* how many posts the run has published
    title,        \* the title handed to the slug routines
    slug,         \* what each slug routine returned for title (None: not called)
    days,         \* (now - 2024-01-11).days, the whole days since the reference date
    at_midnight,  \* whether now is exactly 00:00:00.000000
    astro_data,   \* what get_current_astronomical_data returned (None: not called)
    request,      \* the topic of a content generation run and what each provider does in it
    result        \* what the content generation returned (None: not called)

slugVars == <<title, slug>>
moonVars == <<days, at_midnight, astro_data>>
fileVars == <<posts_index, sitemap, rss_xml, feed_xml, atom_xml, feed_json, last_call>>
capVars == <<writer, published>>
genVars == <<request, result>>
vars == <<posts_index, sitemap, rss_xml, feed_xml, atom_xml, feed_json, last_call,
          writer, published, title, slug, days, at_midnight, astro_data, request, result>>

\* an optional value: None, or Some(v)
None == <<>>
Some(v) == <<v>>

\* no content generation run
NoRequest == [topic |-> "", text |-> "", free |-> [p \in {} |-> "no_key"], openai |-> "no_key"]

Min(a, b) == IF a < b THEN a ELSE b

\* s[:n]
Prefix(s, n) == SubSeq(s, 1, Min(n, Len(s)))

(***************************************************************************)
(* The files.  A file is missing, holds a document, or holds text that    *)
(* does not parse.                                                         *)
(***************************************************************************)

MissingFile == [state |-> "missing"]

\* a file json.load or ET.parse raises on
CorruptFile == [state |-> "corrupt"]

NoCall == [op |-> "none", arg |-> <<>>, repeated |-> FALSE, raised |-> FALSE]

\* A post record is a dict: a function from its keys to their values.  title
\* stands for the fields that carry the post's content (title,
\* meta_description, keywords, author); every writer sets them.
\* dict.update(new)
DictUpdate(old, new) ==
    [k \in (DOMAIN old) \cup (DOMAIN new) |-> IF k \in DOMAIN new THEN new[k] ELSE old[k]]

\* the URL every writer forms for a slug
PostUrl(s) == <<"https://astroaura.me/blog/posts/", s, ".html">>

\* the post_metadata of BlogPostGenerator.extract_metadata_from_html
BlogPostMetadata(s, t) == [slug |-> s, title |-> t, ai_generated |-> TRUE]

\* the post_entry of AstroAuraBlogGenerator.update_blog_index
AstroAuraPostEntry(post) == [slug |-> post.slug, title |-> post.title]

\* the post_entry of AuthenticAstrologyBlogGenerator.update_blog_index
AuthenticPostEntry(post) ==
    [slug |-> post.slug, title |-> post.title,
     astronomical_data |-> "snapshot", ai_generated |-> post.ai_generated]

\* the record of BlogContentGenerator.generate_blog_post
TrendingPost(s, t) ==
    [slug |-> s, title |-> t, astronomical_data |-> "snapshot", ai_generated |-> TRUE,
     trending_topic |-> "topic"]

\* the elements of a list
Range(seq) == {seq[i] : i \in 1..Len(seq)}

\* the slugs of a list of post records, in order
SlugsOf(posts) == [i \in 1..Len(posts) |-> posts[i].slug]

\* the URLs of the entries of a feed or sitemap document, in order
UrlsOf(entries) == [i \in 1..Len(entries) |-> entries[i].url]

\* the posts list json.load finds in posts_index.json
PostsOf(file) == IF file.state = "ok" THEN file.posts ELSE <<>>

NoMetadata == [present |-> FALSE]

\* json.load(f) raises json.JSONDecodeError, ET.parse(f) raises ParseError
Unparseable(file) == file.state = "corrupt"

\* BlogPostGenerator.load_posts_index, on a file that is missing or parses
LoadPostsIndex(file) ==
    IF file.state = "ok" THEN file
    ELSE [state |-> "ok", posts |-> <<>>, metadata |-> [present |-> TRUE, total_posts |-> 0]]

\* BlogPostGenerator.save_posts_index: the metadata block is created when it
\* is absent and total_posts is set to the length of the list
SavePostsIndex(index_data) ==
    [index_data EXCEPT !.metadata = [present |-> TRUE, total_posts |-> Len(index_data.posts)]]

\* the position of the first record with slug s, 0 when there is none
FirstWithSlug(posts, s) ==
    IF \E i \in 1..Len(posts) : posts[i].slug = s
    THEN CHOOSE i \in 1..Len(posts) :
            /\ posts[i].slug = s
            /\ \A j \in 1..(i - 1) : posts[j].slug # s
    ELSE 0

\* a version of the upsert that always inserts
UpsertAlwaysInsert(posts, post_metadata) == <<post_metadata>> \o posts

\* a version of the upsert that moves an updated record to the front
UpsertMoveToFront(posts, post_metadata) ==
    LET i == FirstWithSlug(posts, post_metadata.slug)
    IN  IF i > 0
        THEN <<DictUpdate(posts[i], post_metadata)>> \o SubSeq(posts, 1, i - 1)
                 \o SubSeq(posts, i + 1, Len(posts))
        ELSE <<post_metadata>> \o posts

\* the upsert of BlogPostGenerator.add_post_to_index: the first record with
\* the slug is updated in place, else the record is inserted at position 0
Upsert(posts, post_metadata) ==
    LET i == FirstWithSlug(posts, post_metadata.slug)
    IN  IF i > 0
        THEN [posts EXCEPT ![i] = DictUpdate(posts[i], post_metadata)]
        ELSE <<post_metadata>> \o posts

\* BlogPostGenerator.add_post_to_index
AddPostToIndex(file, post_metadata) ==
    LET index_data == LoadPostsIndex(file)
    IN  SavePostsIndex([index_data EXCEPT !.posts = Upsert(index_data.posts, post_metadata)])

\* the caps of the two update_blog_index
AstroAuraIndexCap == 100
AuthenticIndexCap == 50

\* an update_blog_index that drops the newest records once the cap is reached
InsertAndCapKeepOldest(file, post_entry, cap) ==
    IF file.state = "ok"
    THEN [file EXCEPT !.posts = IF Len(file.posts) < cap THEN <<post_entry>> \o file.posts
                                ELSE file.posts]
    ELSE [state |-> "ok", posts |-> Prefix(<<post_entry>>, cap), metadata |-> NoMetadata]

\* posts_index["posts"].insert(0, post_entry); posts_index["posts"] = posts_index["posts"][:cap]
\* The rest of the loaded document (a metadata block) is written back as read.
InsertAndCap(file, post_entry, cap) ==
    IF file.state = "ok"
    THEN [file EXCEPT !.posts = Prefix(<<post_entry>> \o file.posts, cap)]
    ELSE [state |-> "ok", posts |-> Prefix(<<post_entry>>, cap), metadata |-> NoMetadata]

\* AstroAuraBlogGenerator.update_blog_index
AstroAuraUpdateBlogIndex(file, new_post) ==
    InsertAndCap(file, AstroAuraPostEntry(new_post), AstroAuraIndexCap)

\* AuthenticAstrologyBlogGenerator.update_blog_index
AuthenticUpdateBlogIndex(file, post_data) ==
    InsertAndCap(file, AuthenticPostEntry(post_data), AuthenticIndexCap)

\* config["max_posts"] of RSSFeedGenerator
FeedMaxPosts == 50

\* one item, entry or url of a feed or sitemap document
FeedEntry(post) == [url |-> PostUrl(post.slug), title |-> post.title]

FeedEntries(posts) == [i \in 1..Len(posts) |-> FeedEntry(posts[i])]

FeedDocument(posts) == [state |-> "ok", entries |-> FeedEntries(posts)]

\* RSSFeedGenerator.generate_rss_feed, generate_atom_feed, generate_json_feed:
\* each loads the index and renders its first max_posts records
RssGeneratorFeed(file) == FeedDocument(Prefix(PostsOf(file), FeedMaxPosts))

\* EnhancedBlogGenerator.update_atom_feed, update_json_feed, update_rss_feed:
\* one entry per post of the list, in the order of the list
EnhancedFeed(posts) == FeedDocument(posts)

\* an update_rss_feed that lists the posts oldest first
RECURSIVE Reverse(_)
Reverse(seq) == IF seq = <<>> THEN <<>> ELSE Reverse(Tail(seq)) \o <<Head(seq)>>

EnhancedFeedReversed(posts) == FeedDocument(Reverse(posts))

\* EnhancedBlogGenerator.update_rss_feed
EnhancedRssFeed(posts) == EnhancedFeed(posts)

\* the index document of EnhancedBlogGenerator.update_indexes: {"posts": posts}
EnhancedIndex(posts) == [state |-> "ok", posts |-> posts, metadata |-> NoMetadata]

\* A sitemap document: the url elements of the posts it lists, each with its
\* loc (the static pages and the lastmod of an entry are left out), and how
\* the urlset element is serialised.  prefixed is FALSE for
\* <urlset xmlns="..."> ... </urlset>, and TRUE once ElementTree has
\* written the tree: xml.etree serialises a parsed default namespace with a
\* prefix, <ns0:urlset xmlns:ns0="..."> ... </ns0:urlset>.
HandWrittenSitemap == [state |-> "ok", prefixed |-> FALSE, entries |-> <<>>]

\* url in content: the text of the document holds the url
UrlInContent(sm, url) == \E i \in 1..Len(sm.entries) : sm.entries[i].url = url

\* content.replace('</urlset>', url_entry + '</urlset>'): the text
\* '</urlset>' occurs once in an unprefixed document and not at all in a
\* prefixed one, whose closing tag is '</ns0:urlset>'
ReplaceClosingTag(sm, entry) ==
    IF sm.prefixed THEN sm ELSE [sm EXCEPT !.entries = Append(sm.entries, entry)]

\* the loop of EnhancedBlogGenerator.update_sitemap
RECURSIVE EnhancedSitemapLoop(_, _)
EnhancedSitemapLoop(sm, posts) ==
    IF posts = <<>> THEN sm
    ELSE LET url == PostUrl(Head(posts).slug)
             next == IF ~UrlInContent(sm, url)
                     THEN ReplaceClosingTag(sm, [url |-> url])
                     ELSE sm
         IN  EnhancedSitemapLoop(next, Tail(posts))

\* EnhancedBlogGenerator.update_sitemap
EnhancedUpdateSitemap(sm, posts) ==
    IF sm.state # "ok" THEN sm ELSE EnhancedSitemapLoop(sm, posts)

\* BlogPostGenerator.update_sitemap: ET.parse fails on a missing file and the
\* except clause returns; root.find looks for a url element whose loc is the
\* post url (an element found has children, so it is true); a new element is
\* appended to the root and the tree is written, which serialises the
\* namespace with a prefix
BlogPostUpdateSitemap(sm, post_metadata) ==
    IF sm.state # "ok" THEN sm
    ELSE IF UrlInContent(sm, PostUrl(post_metadata.slug)) THEN sm
    ELSE [state |-> "ok", prefixed |-> TRUE,
          entries |-> Append(sm.entries, [url |-> PostUrl(post_metadata.slug)])]

\* an rss.xml whose channel has no item
EmptyChannel == [state |-> "ok", entries |-> <<>>]

\* BlogPostGenerator.update_rss: ET.parse fails on a missing or unparseable
\* file and the except clause returns; channel.find looks for an item with
\* the link of the post; ET.SubElement(channel, 'item') puts the new item
\* behind the children the channel has
BlogPostUpdateRss(rss, post_metadata) ==
    IF rss.state # "ok" THEN rss
    ELSE IF UrlInContent(rss, PostUrl(post_metadata.slug)) THEN rss
    ELSE [rss EXCEPT !.entries = Append(@, FeedEntry(post_metadata))]

(***************************************************************************)
(* The operations on the files.                                            *)
(***************************************************************************)

\* the call just made, whether it repeats the call before it, and whether an
\* exception left it
Called(op, arg) ==
    [op |-> op, arg |-> arg, repeated |-> last_call.op = op /\ last_call.arg = arg,
     raised |-> FALSE]

Raised(op, arg) == [Called(op, arg) EXCEPT !.raised = TRUE]

\* BlogPostGenerator.add_post_to_index(html_file_path, post_metadata)
DoAddPostToIndex(post_metadata) ==
    /\ IF Unparseable(posts_index)
       THEN /\ posts_index' = posts_index
            /\ last_call' = Raised("add_post_to_index", post_metadata)
       ELSE /\ posts_index' = AddPostToIndex(posts_index, post_metadata)
            /\ last_call' = Called("add_post_to_index", post_metadata)
    /\ UNCHANGED <<sitemap, rss_xml, feed_xml, atom_xml, feed_json>>

\* BlogPostGenerator.update_sitemap(post_metadata)
DoBlogPostUpdateSitemap(post_metadata) ==
    /\ sitemap' = BlogPostUpdateSitemap(sitemap, post_metadata)
    /\ last_call' = Called("blogpost_update_sitemap", <<post_metadata>>)
    /\ UNCHANGED <<posts_index, rss_xml, feed_xml, atom_xml, feed_json>>

\* EnhancedBlogGenerator.update_sitemap(posts)
DoEnhancedUpdateSitemap(posts) ==
    /\ sitemap' = EnhancedUpdateSitemap(sitemap, posts)
    /\ last_call' = Called("enhanced_update_sitemap", posts)
    /\ UNCHANGED <<posts_index, rss_xml, feed_xml, atom_xml, feed_json>>

\* EnhancedBlogGenerator.update_indexes(posts): the index, atom.xml,
\* feed.json and rss.xml are overwritten from posts, then the sitemap is
\* updated
DoEnhancedUpdateIndexes(posts) ==
    /\ posts_index' = EnhancedIndex(posts)
    /\ atom_xml' = EnhancedFeed(posts)
    /\ feed_json' = EnhancedFeed(posts)
    /\ rss_xml' = EnhancedRssFeed(posts)
    /\ sitemap' = EnhancedUpdateSitemap(sitemap, posts)
    /\ last_call' = Called("update_indexes", posts)
    /\ UNCHANGED feed_xml

\* AstroAuraBlogGenerator.generate_and_publish_post: update_blog_index, then
\* generate_rss_feeds, where RSSFeedGenerator.generate_all_feeds writes
\* feed.xml, atom.xml and feed.json from the index just saved
DoAstroAuraGenerateAndPublishPost(post_data) ==
    /\ IF Unparseable(posts_index)
       THEN /\ UNCHANGED <<posts_index, feed_xml, atom_xml, feed_json>>
            /\ last_call' = Raised("generate_and_publish_post", <<>>)
       ELSE /\ posts_index' = AstroAuraUpdateBlogIndex(posts_index, post_data)
            /\ feed_xml' = RssGeneratorFeed(posts_index')
            /\ atom_xml' = RssGeneratorFeed(posts_index')
            /\ feed_json' = RssGeneratorFeed(posts_index')
            /\ last_call' = Called("generate_and_publish_post", <<>>)
    /\ UNCHANGED <<sitemap, rss_xml>>

\* AstroAuraBlogGenerator.update_blog_index(new_post)
DoAstroAuraUpdateBlogIndex(post_data) ==
    /\ posts_index' = AstroAuraUpdateBlogIndex(posts_index, post_data)
    /\ last_call' = Called("astroaura_update_blog_index", <<>>)
    /\ UNCHANGED <<sitemap, rss_xml, feed_xml, atom_xml, feed_json>>

\* AuthenticAstrologyBlogGenerator.update_blog_index(post_data, slug, astronomical_data)
DoAuthenticUpdateBlogIndex(post_data) ==
    /\ posts_index' = AuthenticUpdateBlogIndex(posts_index, post_data)
    /\ last_call' = Called("authentic_update_blog_index", <<>>)
    /\ UNCHANGED <<sitemap, rss_xml, feed_xml, atom_xml, feed_json>>

\* a register_new_post in which a failure of update_sitemap ends the call
DoRegisterNewPostAborting(post_metadata) ==
    /\ IF Unparseable(posts_index)
       THEN /\ UNCHANGED <<posts_index, sitemap, rss_xml>>
            /\ last_call' = Raised("register_new_post", post_metadata)
       ELSE IF sitemap.state # "ok"
       THEN /\ posts_index' = AddPostToIndex(posts_index, post_metadata)
            /\ UNCHANGED <<sitemap, rss_xml>>
            /\ last_call' = Raised("register_new_post", post_metadata)
       ELSE /\ posts_index' = AddPostToIndex(posts_index, post_metadata)
            /\ sitemap' = BlogPostUpdateSitemap(sitemap, post_metadata)
            /\ rss_xml' = BlogPostUpdateRss(rss_xml, post_metadata)
            /\ last_call' = Called("register_new_post", post_metadata)
    /\ UNCHANGED <<feed_xml, atom_xml, feed_json>>

\* BlogPostGenerator.register_new_post(html_file_path), for a file that
\* exists: add_post_to_index, update_sitemap, update_rss, return True.  An
\* exception of add_post_to_index is caught nowhere and leaves the call
\* before update_sitemap.
DoRegisterNewPost(post_metadata) ==
    /\ IF Unparseable(posts_index)
       THEN /\ UNCHANGED <<posts_index, sitemap, rss_xml>>
            /\ last_call' = Raised("register_new_post", post_metadata)
       ELSE /\ posts_index' = AddPostToIndex(posts_index, post_metadata)
            /\ sitemap' = BlogPostUpdateSitemap(sitemap, post_metadata)
            /\ rss_xml' = BlogPostUpdateRss(rss_xml, post_metadata)
            /\ last_call' = Called("register_new_post", post_metadata)
    /\ UNCHANGED <<feed_xml, atom_xml, feed_json>>

(***************************************************************************)
(* Slugs.  A string is a sequence of one-character strings.                *)
(***************************************************************************)

\* The characters the titles are written in: a lowercase letter, an uppercase
\* letter, the underscore (which \w matches), a blank, a hyphen and a
\* punctuation mark.
Alphabet == {"a", "B", "_", " ", "-", "!"}

\* str.lower() on one character
Lower(c) == IF c = "B" THEN "b" ELSE c

LowerStr(s) == [i \in 1..Len(s) |-> Lower(s[i])]

\* \w, \s of the re module
IsWordChar(c) == c \in {"a", "b", "B", "_"}
IsSpaceChar(c) == c = " "

\* re.sub(r'[^\w\s-]', '', s)
RECURSIVE StripNonWord(_)
StripNonWord(s) ==
    IF s = <<>> THEN <<>>
    ELSE IF IsWordChar(Head(s)) \/ IsSpaceChar(Head(s)) \/ Head(s) = "-"
         THEN <<Head(s)>> \o StripNonWord(Tail(s))
         ELSE StripNonWord(Tail(s))

IsSep(c) == c = "-" \/ IsSpaceChar(c)

\* re.sub(r'[-\s]+', '-', s): every maximal run of hyphens and blanks becomes
\* one hyphen
RECURSIVE CollapseSeparators(_)
CollapseSeparators(s) ==
    IF s = <<>> THEN <<>>
    ELSE IF IsSep(Head(s))
         THEN IF Tail(s) # <<>> /\ IsSep(Head(Tail(s)))
              THEN CollapseSeparators(Tail(s))
              ELSE <<"-">> \o CollapseSeparators(Tail(s))
         ELSE <<Head(s)>> \o CollapseSeparators(Tail(s))

\* s.strip('-')
RECURSIVE LStripHyphen(_)
LStripHyphen(s) ==
    IF s # <<>> /\ Head(s) = "-" THEN LStripHyphen(Tail(s)) ELSE s

RECURSIVE RStripHyphen(_)
RStripHyphen(s) ==
    IF s # <<>> /\ s[Len(s)] = "-" THEN RStripHyphen(SubSeq(s, 1, Len(s) - 1)) ELSE s

StripHyphen(s) == RStripHyphen(LStripHyphen(s))

\* the [:50] of the two truncating slug routines
SlugMaxLen == 50

\* AstroAuraBlogGenerator._create_slug
AstroAuraCreateSlug(t) ==
    StripHyphen(CollapseSeparators(StripNonWord(LowerStr(t))))

\* AuthenticAstrologyBlogGenerator._create_slug: strips, then truncates
AuthenticCreateSlug(t) ==
    Prefix(StripHyphen(CollapseSeparators(StripNonWord(LowerStr(t)))), SlugMaxLen)

\* the inline slug code of BlogContentGenerator.generate_blog_post: no strip
TrendingCreateSlug(t) ==
    Prefix(CollapseSeparators(StripNonWord(LowerStr(t))), SlugMaxLen)

SlugRoutines == {"astroaura", "authentic", "trending"}

CreateSlug(routine, t) ==
    CASE routine = "astroaura" -> AstroAuraCreateSlug(t)
      [] routine = "authentic" -> AuthenticCreateSlug(t)
      [] routine = "trending"  -> TrendingCreateSlug(t)

\* The titles: a run of k letters followed by a tail of at most MaxTail
\* characters; the runs are chosen so that the tail falls before, across and
\* after the 50th character.
MaxTail == 3

RECURSIVE Words(_)
Words(n) ==
    IF n = 0 THEN {<<>>}
    ELSE LET shorter == Words(n - 1)
         IN  shorter \cup {w \o <<c>> : w \in shorter, c \in Alphabet}

Run(k) == [i \in 1..k |-> "a"]

RunLengths == {0} \cup ((SlugMaxLen - MaxTail)..SlugMaxLen)

Titles == {Run(k) \o w : k \in RunLengths, w \in Words(MaxTail)}

SlugInit ==
    /\ title \in Titles
    /\ slug = [r \in SlugRoutines |-> None]
    /\ days = 0 /\ at_midnight = FALSE /\ astro_data = None
    /\ posts_index = MissingFile /\ sitemap = MissingFile /\ rss_xml = MissingFile
    /\ feed_xml = MissingFile /\ atom_xml = MissingFile /\ feed_json = MissingFile
    /\ last_call = NoCall /\ writer = "none" /\ published = 0
    /\ request = NoRequest /\ result = None


\* one call of a slug routine on the title
CallAstroAuraCreateSlug ==
    /\ slug["astroaura"] = None
    /\ slug' = [slug EXCEPT !["astroaura"] = Some(AstroAuraCreateSlug(title))]
    /\ UNCHANGED <<title, moonVars, fileVars, capVars, genVars>>

CallAuthenticCreateSlug ==
    /\ slug["authentic"] = None
    /\ slug' = [slug EXCEPT !["authentic"] = Some(AuthenticCreateSlug(title))]
    /\ UNCHANGED <<title, moonVars, fileVars, capVars, genVars>>

CallTrendingCreateSlug ==
    /\ slug["trending"] = None
    /\ slug' = [slug EXCEPT !["trending"] = Some(TrendingCreateSlug(title))]
    /\ UNCHANGED <<title, moonVars, fileVars, capVars, genVars>>

(***************************************************************************)
(* Moon phase.                                                             *)
(***************************************************************************)

\* The lunar month of the computation, 29.53, in hundredths of a day.
LunarMonthHundredths == 2953

\* n % 29.53 for a whole number n >= 0.  The double 29.53 is q = 29.53 + eps
\* with 0 < eps < 2^-48, and float % is exact, so the result is
\* n - k*q = h/100 - k*eps with k = floor(n / q): k is floor(n / 29.53) except
\* when n is a positive whole multiple of 29.53, where it is one less.  The
\* result is kept as the pair (h, k).
DaysSinceNewMoon(n) ==
    LET exact == (100 * n) \div LunarMonthHundredths
        k == IF n > 0 /\ (100 * n) % LunarMonthHundredths = 0 THEN exact - 1 ELSE exact
    IN  [h |-> 100 * n - LunarMonthHundredths * k, e |-> k]

\* d < b for a whole number b
Below(d, b) == d.h < 100 * b \/ (d.h = 100 * b /\ d.e > 0)

\* d <= b for a whole number b
AtMost(d, b) == Below(d, b) \/ (d.h = 100 * b /\ d.e = 0)

\* the if/elif chain with <= written for <
MoonPhaseInclusive(d) ==
    IF AtMost(d, 1) THEN "New Moon"
    ELSE IF AtMost(d, 7) THEN "Waxing Crescent"
    ELSE IF AtMost(d, 8) THEN "First Quarter"
    ELSE IF AtMost(d, 14) THEN "Waxing Gibbous"
    ELSE IF AtMost(d, 16) THEN "Full Moon"
    ELSE IF AtMost(d, 22) THEN "Waning Gibbous"
    ELSE IF AtMost(d, 23) THEN "Last Quarter"
    ELSE "Waning Crescent"

\* the if/elif chain of get_current_astronomical_data
MoonPhase(d) ==
    IF Below(d, 1) THEN "New Moon"
    ELSE IF Below(d, 7) THEN "Waxing Crescent"
    ELSE IF Below(d, 8) THEN "First Quarter"
    ELSE IF Below(d, 14) THEN "Waxing Gibbous"
    ELSE IF Below(d, 16) THEN "Full Moon"
    ELSE IF Below(d, 22) THEN "Waning Gibbous"
    ELSE IF Below(d, 23) THEN "Last Quarter"
    ELSE "Waning Crescent"

\* The calendar: now = 2024-01-11 + days, at midnight or later in the day.
IsLeap(y) == y % 4 = 0 /\ (y % 100 # 0 \/ y % 400 = 0)

DaysInYear(y) == IF IsLeap(y) THEN 366 ELSE 365

DaysInMonth(y, m) ==
    IF m = 2 THEN (IF IsLeap(y) THEN 29 ELSE 28)
    ELSE IF m \in {4, 6, 9, 11} THEN 30 ELSE 31

\* the date that lies n days after January 1 of year y
RECURSIVE InYear(_, _)
InYear(y, n) == IF n >= DaysInYear(y) THEN InYear(y + 1, n - DaysInYear(y)) ELSE [year |-> y, n |-> n]

RECURSIVE InMonth(_, _, _)
InMonth(y, m, n) ==
    IF n >= DaysInMonth(y, m) THEN InMonth(y, m + 1, n - DaysInMonth(y, m))
    ELSE [year |-> y, month |-> m, day |-> n + 1]

ReferenceYear == 2024
\* January 11 is the day 10 days after January 1
ReferenceDayOfYear == 10

DateOf(n) ==
    LET yd == InYear(ReferenceYear, ReferenceDayOfYear + n)
    IN  InMonth(yd.year, 1, yd.n)

\* _get_sun_sign: the first row of the table whose end the date does not pass
SunSignTable ==
    << <<1, 20, "Capricorn">>, <<2, 19, "Aquarius">>, <<3, 21, "Pisces">>,
       <<4, 20, "Aries">>, <<5, 21, "Taurus">>, <<6, 21, "Gemini">>,
       <<7, 23, "Cancer">>, <<8, 23, "Leo">>, <<9, 23, "Virgo">>,
       <<10, 23, "Libra">>, <<11, 22, "Scorpio">>, <<12, 22, "Sagittarius">> >>

RECURSIVE SunSignFrom(_, _, _)
SunSignFrom(i, month, day) ==
    IF i > Len(SunSignTable) THEN "Capricorn"
    ELSE IF month < SunSignTable[i][1] \/ (month = SunSignTable[i][1] /\ day <= SunSignTable[i][2])
         THEN SunSignTable[i][3]
         ELSE SunSignFrom(i + 1, month, day)

\* a _get_sun_sign whose rows end the day before their boundary day
GetSunSignExclusive(month, day) ==
    LET hits == {i \in 1..Len(SunSignTable) :
                    \/ month < SunSignTable[i][1]
                    \/ month = SunSignTable[i][1] /\ day < SunSignTable[i][2]}
    IN  IF hits = {} THEN "Capricorn"
        ELSE SunSignTable[CHOOSE i \in hits : \A j \in hits : i <= j][3]

GetSunSign(month, day) == SunSignFrom(1, month, day)

\* _get_current_season
GetCurrentSeason(month) ==
    IF month \in {12, 1, 2} THEN "Winter"
    ELSE IF month \in {3, 4, 5} THEN "Spring"
    ELSE IF month \in {6, 7, 8} THEN "Summer"
    ELSE "Fall"

\* _is_mercury_retrograde_period: start <= date <= end, where start and end
\* are the midnights that begin the first and the last day of a period, so a
\* date on the last day is inside only at midnight itself
RetrogradePeriods == << <<4, 1, 4, 25>>, <<8, 5, 8, 28>>, <<12, 1, 12, 23>> >>

IsMercuryRetrogradePeriod(date, atMidnight) ==
    \E i \in 1..Len(RetrogradePeriods) :
        LET p == RetrogradePeriods[i]
        IN  /\ (date.month > p[1] \/ (date.month = p[1] /\ date.day >= p[2]))
            /\ \/ date.month < p[3]
               \/ date.month = p[3] /\ date.day < p[4]
               \/ date.month = p[3] /\ date.day = p[4] /\ atMidnight

\* the days after 2024-01-11 the model covers
MaxDays == 3000

MoonInit ==
    /\ days \in 0..MaxDays
    /\ at_midnight \in BOOLEAN
    /\ astro_data = None
    /\ title = <<>> /\ slug = [r \in SlugRoutines |-> None]
    /\ posts_index = MissingFile /\ sitemap = MissingFile /\ rss_xml = MissingFile
    /\ feed_xml = MissingFile /\ atom_xml = MissingFile /\ feed_json = MissingFile
    /\ last_call = NoCall /\ writer = "none" /\ published = 0
    /\ request = NoRequest /\ result = None

\* AuthenticAstrologyBlogGenerator.get_current_astronomical_data.  Nothing in
\* the try block can raise, so the except branch is never taken.
AstronomicalData(n, atMidnight) ==
    LET d == DaysSinceNewMoon(n)
        date == DateOf(n)
    IN  [date |-> date,
         days_since_new_moon |-> d,
         moon_phase |-> MoonPhase(d),
         sun_sign |-> GetSunSign(date.month, date.day),
         season |-> GetCurrentSeason(date.month),
         mercury_retrograde |-> IsMercuryRetrogradePeriod(date, atMidnight)]

GetCurrentAstronomicalData ==
    /\ astro_data = None
    /\ astro_data' = Some(AstronomicalData(days, at_midnight))
    /\ UNCHANGED <<days, at_midnight, slugVars, fileVars, capVars, genVars>>

(***************************************************************************)
(* The specification of the sun sign: one call of _get_sun_sign for a      *)
(* month and a day of the month, whether or not the month has that day.    *)
(***************************************************************************)
\* a month of the table and a day of 1..31, the days of the longest month
SunSignInit ==
    /\ request \in [month : 1..Len(SunSignTable), day : 1..DaysInMonth(ReferenceYear, 1)]
    /\ result = None
    /\ days = 0 /\ at_midnight = FALSE /\ astro_data = None
    /\ title = <<>> /\ slug = [r \in SlugRoutines |-> None]
    /\ posts_index = MissingFile /\ sitemap = MissingFile /\ rss_xml = MissingFile
    /\ feed_xml = MissingFile /\ atom_xml = MissingFile /\ feed_json = MissingFile
    /\ last_call = NoCall /\ writer = "none" /\ published = 0

CallGetSunSign ==
    /\ result = None
    /\ result' = Some([by |-> "_get_sun_sign", sign |-> GetSunSign(request.month, request.day)])
    /\ UNCHANGED <<request, slugVars, moonVars, fileVars, capVars>>

SunSignNext == CallGetSunSign

SpecSunSign == SunSignInit /\ [][SunSignNext]_vars

(***************************************************************************)
(* Content generation.  A text is a string.                                *)
(***************************************************************************)

\* s[n:]
Drop(s, n) == SubSeq(s, n + 1, Len(s))

\* s.find(t, i): the position of the first occurrence of the non-empty text
\* t in s at or after position i, 0 when there is none
FindFrom(s, t, i) ==
    LET found == {j \in i..(Len(s) - Len(t) + 1) : SubSeq(s, j, j + Len(t) - 1) = t}
    IN  IF found = {} THEN 0
        ELSE CHOOSE j \in found : \A k \in found : j <= k

\* t in s
Contains(s, t) == FindFrom(s, t, 1) > 0

\* s.endswith(t)
EndsWith(s, t) == Len(t) <= Len(s) /\ SubSeq(s, Len(s) - Len(t) + 1, Len(s)) = t

\* s.replace(old, new)
RECURSIVE StrReplace(_, _, _)
StrReplace(s, old, new) ==
    LET i == FindFrom(s, old, 1)
    IN  IF i = 0 THEN s
        ELSE SubSeq(s, 1, i - 1) \o new \o StrReplace(Drop(s, i + Len(old) - 1), old, new)

\* s.split(sep)
RECURSIVE StrSplit(_, _)
StrSplit(s, sep) ==
    LET i == FindFrom(s, sep, 1)
    IN  IF i = 0 THEN <<s>>
        ELSE <<SubSeq(s, 1, i - 1)>> \o StrSplit(Drop(s, i + Len(sep) - 1), sep)

\* sep.join(parts)
RECURSIVE StrJoin(_, _)
StrJoin(parts, sep) ==
    IF Len(parts) = 0 THEN ""
    ELSE IF Len(parts) = 1 THEN parts[1]
    ELSE parts[1] \o sep \o StrJoin(Tail(parts), sep)

\* s.count(t)
StrCount(s, t) == Len(StrSplit(s, t)) - 1

IsWhitespace(c) == c \in {" ", "\n", "\t", "\r"}

RECURSIVE StrLStrip(_)
StrLStrip(s) ==
    IF Len(s) > 0 /\ IsWhitespace(SubSeq(s, 1, 1)) THEN StrLStrip(Drop(s, 1)) ELSE s

RECURSIVE StrRStrip(_)
StrRStrip(s) ==
    IF Len(s) > 0 /\ IsWhitespace(SubSeq(s, Len(s), Len(s)))
    THEN StrRStrip(SubSeq(s, 1, Len(s) - 1))
    ELSE s

\* s.strip()
StrStrip(s) == StrRStrip(StrLStrip(s))

UpperCase == "ABCDEFGHIJKLMNOPQRSTUVWXYZ"
LowerCase == "abcdefghijklmnopqrstuvwxyz"

\* the lowercase letter of each uppercase letter
LowerOf ==
    [c \in {SubSeq(UpperCase, i, i) : i \in 1..Len(UpperCase)} |->
        SubSeq(LowerCase, FindFrom(UpperCase, c, 1), FindFrom(UpperCase, c, 1))]

\* c.isupper() for one character
IsUpperChar(c) == Len(c) = 1 /\ c \in DOMAIN LowerOf

LowerChar(c) == IF c \in DOMAIN LowerOf THEN LowerOf[c] ELSE c

\* s.lower(), one character at a time (the text is halved to keep the
\* evaluation shallow)
RECURSIVE StrLower(_)
StrLower(s) ==
    IF Len(s) <= 1 THEN LowerChar(s)
    ELSE StrLower(SubSeq(s, 1, Len(s) \div 2)) \o StrLower(Drop(s, Len(s) \div 2))

MonthNames ==
    <<"January", "February", "March", "April", "May", "June", "July",
      "August", "September", "October", "November", "December">>

\* strftime("%B %d, %Y")
DateStr(date) ==
    MonthNames[date.month] \o " "
        \o (IF date.day < 10 THEN "0" ELSE "") \o ToString(date.day)
        \o ", " \o ToString(date.year)

\* strftime("%B %Y")
MonthStr(date) == MonthNames[date.month] \o " " \o ToString(date.year)

\* the length to which a meta description is cut
MetaMaxLen == 155
MetaKeptLen == 152

\* if len(description) > 155: description = description[:152] + "..."
Truncate(description) ==
    IF Len(description) > MetaMaxLen
    THEN SubSeq(description, 1, MetaKeptLen) \o "..."
    ELSE description

\* how many sentences each _generate_meta_description keeps
FreeApiSentences == 2
AuthenticSentences == 3

\* '. '.join(content.replace('\n', ' ').split('.')[:n]).strip()
FirstSentences(content, n) ==
    StrStrip(StrJoin(Prefix(StrSplit(StrReplace(content, "\n", " "), "."), n), ". "))

AstroAuraMention == " Get personalized insights with AstroAura's AI-powered astrology app."

\* the description with the mention appended when it lacks the product name
WithMention(description) ==
    IF ~Contains(StrLower(description), "astroaura")
    THEN description \o AstroAuraMention
    ELSE description

\* FreeAPIContentGenerator._generate_meta_description
FreeApiGenerateMetaDescription(content, topic) ==
    Truncate(WithMention(FirstSentences(content, FreeApiSentences)))

\* AuthenticAstrologyBlogGenerator._generate_meta_description
AuthenticGenerateMetaDescription(content, topic) ==
    Truncate(FirstSentences(content, AuthenticSentences))

\* the heading test of FreeAPIContentGenerator._format_content_for_html
HeadingMaxLen == 100
LooksLikeHeading(paragraph) ==
    /\ Len(paragraph) < HeadingMaxLen
    /\ StrCount(paragraph, ".") <= 1
    /\ ~EndsWith(paragraph, ".")
    /\ IsUpperChar(SubSeq(paragraph, 1, 1))

\* the deepest heading level of _format_content_for_html
MaxHeadingLevel == 6

\* the loop of FreeAPIContentGenerator._format_content_for_html over the
\* paragraphs
RECURSIVE FreeApiFormatParagraphs(_, _)
FreeApiFormatParagraphs(paragraphs, section_count) ==
    IF Len(paragraphs) = 0 THEN ""
    ELSE LET paragraph == StrStrip(Head(paragraphs))
         IN  IF Len(paragraph) = 0
             THEN FreeApiFormatParagraphs(Tail(paragraphs), section_count)
             ELSE IF LooksLikeHeading(paragraph)
             THEN LET h == ToString(Min(section_count + 2, MaxHeadingLevel))
                  IN  "    <h" \o h \o ">" \o paragraph \o "</h" \o h \o ">\n"
                          \o FreeApiFormatParagraphs(Tail(paragraphs), section_count + 1)
             ELSE "    <p>" \o paragraph \o "</p>\n"
                      \o FreeApiFormatParagraphs(Tail(paragraphs), section_count)

\* the call-to-action section _format_content_for_html appends (its heading,
\* paragraph and buttons are left out)
CallToAction == "\n    <section class=\"astroaura-cta\">\n    </section>\n</div>"

\* FreeAPIContentGenerator._format_content_for_html
FreeApiFormatContentForHtml(content) ==
    "<div class=\"blog-content\">\n"
        \o FreeApiFormatParagraphs(StrSplit(content, "\n\n"), 0)
        \o CallToAction

\* re.sub(mark + r'(.*?)' + mark, '<tag>\1</tag>', s): at a mark, the nearest
\* later mark on the same line closes it; a mark that nothing closes stays
RECURSIVE SubMarked(_, _, _)
SubMarked(s, mark, tag) ==
    LET i == FindFrom(s, mark, 1)
        rest == Drop(s, i + Len(mark) - 1)
        j == FindFrom(rest, mark, 1)
    IN  IF i = 0 THEN s
        ELSE IF j > 0 /\ ~Contains(SubSeq(rest, 1, j - 1), "\n")
        THEN SubSeq(s, 1, i - 1) \o "<" \o tag \o ">" \o SubSeq(rest, 1, j - 1)
                 \o "</" \o tag \o ">" \o SubMarked(Drop(rest, j + Len(mark) - 1), mark, tag)
        ELSE SubSeq(s, 1, i) \o SubMarked(Drop(s, i), mark, tag)

\* p.lstrip('#'), p.lstrip('# ')
RECURSIVE LStripChars(_, _)
LStripChars(s, chars) ==
    IF Len(s) > 0 /\ SubSeq(s, 1, 1) \in chars THEN LStripChars(Drop(s, 1), chars) ELSE s

\* the paragraphs of AuthenticAstrologyBlogGenerator._format_content_for_html
RECURSIVE AuthenticFormatParagraphs(_)
AuthenticFormatParagraphs(paragraphs) ==
    IF Len(paragraphs) = 0 THEN <<>>
    ELSE LET p == StrStrip(Head(paragraphs))
             rest == AuthenticFormatParagraphs(Tail(paragraphs))
         IN  IF Len(p) = 0 THEN rest
             ELSE IF SubSeq(p, 1, 1) = "#"
             THEN LET level == ToString(Len(p) - Len(LStripChars(p, {"#"})))
                      text == StrStrip(LStripChars(p, {"#", " "}))
                  IN  <<"<h" \o level \o ">" \o text \o "</h" \o level \o ">">> \o rest
             ELSE <<"<p>" \o p \o "</p>">> \o rest

\* AuthenticAstrologyBlogGenerator._format_content_for_html
AuthenticFormatContentForHtml(content) ==
    LET marked == SubMarked(SubMarked(content, "**", "strong"), "*", "em")
    IN  StrJoin(AuthenticFormatParagraphs(StrSplit(marked, "\n\n")), "\n")

TitleWords == {"today", "cosmic", "astrology", "moon", "energy"}
TitleLinesRead == 5
TitleMinLen == 10
TitleMaxLen == 100

\* the loop of _extract_title_from_content over the first lines
RECURSIVE FirstTitleLine(_)
FirstTitleLine(lines) ==
    IF Len(lines) = 0 THEN None
    ELSE LET line == Head(lines)
         IN  IF /\ Len(StrStrip(line)) > TitleMinLen
                /\ Len(StrStrip(line)) < TitleMaxLen
                /\ \E word \in TitleWords : Contains(StrLower(line), word)
             THEN Some(StrStrip(line))
             ELSE FirstTitleLine(Tail(lines))

\* AuthenticAstrologyBlogGenerator._extract_title_from_content
ExtractTitleFromContent(content, topic, date) ==
    LET found == FirstTitleLine(Prefix(StrSplit(content, "\n"), TitleLinesRead))
    IN  IF found # None THEN found[1]
        ELSE topic \o " - Cosmic Insights for " \o DateStr(date)

\* the title_templates of FreeAPIContentGenerator._generate_title
TitleTemplates(topic, data) ==
    <<topic \o ": Your Complete Guide for " \o MonthStr(data.date),
      topic \o " in " \o data.sun_sign \o " Season - Cosmic Insights and Guidance",
      "Understanding " \o topic \o ": Current Cosmic Influences and Practical Wisdom",
      topic \o " Explained: What Today's Cosmic Energy Reveals",
      "Navigate " \o topic \o " with Confidence - " \o MonthStr(data.date) \o " Astrology Guide">>

NumTitleTemplates == 5

\* the four providers generate_with_free_apis tries, in its api_priority
ApiPriority == <<"gemini", "anthropic", "cohere", "huggingface">>

ApiUsed ==
    [gemini |-> "Google Gemini", anthropic |-> "Anthropic Claude",
     cohere |-> "Cohere", huggingface |-> "Hugging Face"]

\* What a provider does in a run: it has no key in the environment, its
\* request fails (an HTTP error, a timeout or a malformed response, each
\* caught inside the provider, which then returns None), or it returns a text.
ProviderOutcomes == {"no_key", "error", "ok"}

\* A provider can also answer 200 with a body of the expected shape whose
\* text field is null: the provider then returns content None with
\* 'success': True.
ResponseOutcomes == ProviderOutcomes \cup {"null_text"}

\* the provider returns a dict with 'success': True
ReturnsSuccess(outcome) == outcome \in {"ok", "null_text"}

\* the call ends with an exception
Raises(exception) == [raised |-> exception]

\* the first provider of the priority list, from position i on, that succeeds
RECURSIVE FirstSuccess(_, _)
FirstSuccess(free, i) ==
    IF i > Len(ApiPriority) THEN 0
    ELSE IF ReturnsSuccess(free[ApiPriority[i]]) THEN i
    ELSE FirstSuccess(free, i + 1)

\* FreeAPIContentGenerator._generate_enhanced_fallback_content; the page
\* between the opening and the closing tag is left out of content.  The date
\* of datetime.now() is the date of the snapshot.
EnhancedFallbackContent(topic, data) ==
    [title |-> topic \o " - Cosmic Guidance for " \o DateStr(data.date),
     content |-> "<div class=\"blog-content enhanced-fallback\">\n        </div>",
     meta_description |->
         "Explore " \o StrLower(topic) \o " with authentic astrological guidance for "
             \o DateStr(data.date) \o ". Discover today's " \o data.moon_phase
             \o " energy in " \o data.sun_sign
             \o " season with AstroAura's personalized cosmic insights and practical spiritual wisdom.",
     ai_generated |-> FALSE,
     api_used |-> "Enhanced Fallback System"]

\* FreeAPIContentGenerator.generate_with_free_apis; choice is the template
\* random.choice picks in _generate_title
GenerateWithFreeApis(req, data, choice) ==
    LET i == FirstSuccess(req.free, 1)
    IN  IF i > 0 /\ req.free[ApiPriority[i]] = "null_text"
        THEN Raises("AttributeError")
        ELSE IF i > 0
        THEN [title |-> TitleTemplates(req.topic, data)[choice],
              content |-> FreeApiFormatContentForHtml(req.text),
              meta_description |-> FreeApiGenerateMetaDescription(req.text, req.topic),
              ai_generated |-> TRUE,
              api_used |-> ApiUsed[ApiPriority[i]]]
        ELSE EnhancedFallbackContent(req.topic, data)

\* AuthenticAstrologyBlogGenerator._generate_fallback_content; the page
\* between the opening and the closing tag is left out of content
AuthenticFallbackContent(topic, data) ==
    [title |-> StrReplace(StrReplace(topic, "{sign}", data.sun_sign), "{phase}", data.moon_phase)
                   \o " - " \o DateStr(data.date),
     content |-> "<div class=\"blog-content authentic-astrology\">\n        </div>",
     meta_description |->
         "Authentic astrological guidance for " \o DateStr(data.date)
             \o ". Explore today's " \o data.moon_phase \o " energy in " \o data.sun_sign
             \o " season with personalized insights from AstroAura's AI-powered astrology platform.",
     ai_generated |-> FALSE,
     model_used |-> "fallback"]

\* FreeAPIContentGenerator.get_available_apis: the providers with a key.  (A
\* key of the fifth configured provider, which generate_with_free_apis never
\* tries, has the effect of no key at all on the result.)
AvailableFreeApis(req) == {p \in DOMAIN req.free : req.free[p] # "no_key"}

\* AuthenticAstrologyBlogGenerator.generate_authentic_content_with_ai
GenerateAuthenticContentWithAi(req, data, choice) ==
    LET free_result == GenerateWithFreeApis(req, data, choice)
    IN  IF AvailableFreeApis(req) # {} /\ free_result.ai_generated THEN free_result
        ELSE IF req.openai = "ok"
        THEN [title |-> ExtractTitleFromContent(req.text, req.topic, data.date),
              content |-> AuthenticFormatContentForHtml(req.text),
              meta_description |-> AuthenticGenerateMetaDescription(req.text, req.topic),
              ai_generated |-> TRUE,
              model_used |-> "OpenAI GPT-4"]
        ELSE AuthenticFallbackContent(req.topic, data)

\* the topics of the runs: an empty topic and a topic of the built-in list
\* with a placeholder
Topics == {"", "Moon Phase Meditation: Working with {phase} Energy"}

\* the texts a provider returns
ProviderTexts ==
    {"Cosmic Weather Today\n\nThe **moon** invites rest. Trust the pause. Then act.",
     "# Reading the sky\n\nThe planets keep moving through every sign from Aries to Pisces and this opening sentence runs on without a full stop so that the description has to be cut well before it ends"}

\* the snapshots of the runs: every SnapshotStride-th day after the
\* reference date
SnapshotStride == 37
MaxSnapshots == 1
SnapshotDays == {k * SnapshotStride : k \in 0..MaxSnapshots}

Requests ==
    [topic : Topics, text : ProviderTexts,
     free : [{"gemini", "anthropic", "cohere", "huggingface"} -> ProviderOutcomes],
     openai : ProviderOutcomes]

GenInit ==
    /\ request \in Requests
    /\ days \in SnapshotDays
    /\ result = None
    /\ at_midnight = FALSE /\ astro_data = None
    /\ title = <<>> /\ slug = [r \in SlugRoutines |-> None]
    /\ posts_index = MissingFile /\ sitemap = MissingFile /\ rss_xml = MissingFile
    /\ feed_xml = MissingFile /\ atom_xml = MissingFile /\ feed_json = MissingFile
    /\ last_call = NoCall /\ writer = "none" /\ published = 0

\* one call of generate_with_free_apis on the snapshot of the day
CallGenerateWithFreeApis ==
    /\ result = None
    /\ \E choice \in 1..NumTitleTemplates :
           result' = Some([by |-> "generate_with_free_apis",
                           record |-> GenerateWithFreeApis(request, AstronomicalData(days, at_midnight), choice)])
    /\ UNCHANGED <<request, slugVars, moonVars, fileVars, capVars>>

\* one call of generate_authentic_content_with_ai on the snapshot of the day
CallGenerateAuthenticContentWithAi ==
    /\ result = None
    /\ \E choice \in 1..NumTitleTemplates :
           result' = Some([by |-> "generate_authentic_content_with_ai",
                           record |-> GenerateAuthenticContentWithAi(request, AstronomicalData(days, at_midnight), choice)])
    /\ UNCHANGED <<request, slugVars, moonVars, fileVars, capVars>>

GenNext ==
    \/ CallGenerateWithFreeApis
    \/ CallGenerateAuthenticContentWithAi

SpecGen == GenInit /\ [][GenNext]_vars

(***************************************************************************)
(* The specification of the provider chain: one call of                    *)
(* generate_with_free_apis for every combination of what the four          *)
(* providers do.                                                           *)
(***************************************************************************)
ProviderRequests ==
    [topic : {"Moon Phase Meditation: Working with {phase} Energy"},
     text : {"Cosmic Weather Today\n\nThe **moon** invites rest. Trust the pause. Then act."},
     free : [{"gemini", "anthropic", "cohere", "huggingface"} -> ResponseOutcomes],
     openai : {"no_key"}]

ProvidersInit ==
    /\ request \in ProviderRequests
    /\ days = 0
    /\ result = None
    /\ at_midnight = FALSE /\ astro_data = None
    /\ title = <<>> /\ slug = [r \in SlugRoutines |-> None]
    /\ posts_index = MissingFile /\ sitemap = MissingFile /\ rss_xml = MissingFile
    /\ feed_xml = MissingFile /\ atom_xml = MissingFile /\ feed_json = MissingFile
    /\ last_call = NoCall /\ writer = "none" /\ published = 0

ProvidersNext == CallGenerateWithFreeApis

SpecProviders == ProvidersInit /\ [][ProvidersNext]_vars

(***************************************************************************)
(* The capacity specification: one generator class publishes posts with    *)
(* pairwise distinct slugs, the n-th post having the slug n.               *)
(***************************************************************************)

MaxPublished == 102

Writers == {"astroaura", "authentic", "blogpost"}

EmptyIndex == [state |-> "ok", posts |-> <<>>, metadata |-> NoMetadata]

\* the post_data of the n-th publication
NewPostData(n) == [slug |-> n, title |-> "first", ai_generated |-> FALSE]

CapInit ==
    /\ writer \in Writers
    /\ published = 0
    /\ posts_index \in {MissingFile, EmptyIndex}
    /\ sitemap = MissingFile /\ rss_xml = MissingFile
    /\ feed_xml = MissingFile /\ atom_xml = MissingFile /\ feed_json = MissingFile
    /\ last_call = NoCall
    /\ title = <<>> /\ slug = [r \in SlugRoutines |-> None]
    /\ days = 0 /\ at_midnight = FALSE /\ astro_data = None
    /\ request = NoRequest /\ result = None

CapAstroAuraPublish ==
    /\ writer = "astroaura"
    /\ published < MaxPublished
    /\ published' = published + 1
    /\ DoAstroAuraGenerateAndPublishPost(NewPostData(published + 1))
    /\ UNCHANGED <<writer, slugVars, moonVars, genVars>>

CapAuthenticPublish ==
    /\ writer = "authentic"
    /\ published < MaxPublished
    /\ published' = published + 1
    /\ DoAuthenticUpdateBlogIndex(NewPostData(published + 1))
    /\ UNCHANGED <<writer, slugVars, moonVars, genVars>>

CapBlogPostAdd ==
    /\ writer = "blogpost"
    /\ published < MaxPublished
    /\ published' = published + 1
    /\ DoAddPostToIndex(BlogPostMetadata(published + 1, "first"))
    /\ UNCHANGED <<writer, slugVars, moonVars, genVars>>

CapNext == CapAstroAuraPublish \/ CapAuthenticPublish \/ CapBlogPostAdd

SpecCap == CapInit /\ [][CapNext]_vars

(***************************************************************************)
(* The inputs of the specifications that call the writers of the index,    *)
(* the feeds and the sitemap in any order on a few slugs.                  *)
(***************************************************************************)

NumSlugs == 2
MaxBatch == 2
MaxIndexLen == 2

Slugs == 1..NumSlugs

\* two versions of a post's content
TitleIds == {"first", "revised"}

\* the post_metadata read from the html files
PostMetadatas == {BlogPostMetadata(s, t) : s \in Slugs, t \in TitleIds}

\* the post_data the two template generators produce
PostDatas == {[slug |-> s, title |-> t, ai_generated |-> FALSE] : s \in Slugs, t \in TitleIds}

RECURSIVE SeqsUpTo(_, _)
SeqsUpTo(S, n) ==
    IF n = 0 THEN {<<>>}
    ELSE LET shorter == SeqsUpTo(S, n - 1)
         IN  shorter \cup {Append(q, x) : q \in {r \in shorter : Len(r) = n - 1}, x \in S}

\* the post lists handed to EnhancedBlogGenerator.update_indexes and
\* update_sitemap
Batches == SeqsUpTo({TrendingPost(s, "first") : s \in Slugs}, MaxBatch)

otherVars == <<capVars, slugVars, moonVars, genVars>>

\* the index is kept short: a call that adds a record waits for room
HasRoom == Len(PostsOf(posts_index)) < MaxIndexLen

(***************************************************************************)
(* The upsert specification: the writers that add one record to the index. *)
(***************************************************************************)

UpsertInit ==
    /\ posts_index \in {MissingFile, EmptyIndex}
    /\ sitemap = MissingFile /\ rss_xml = MissingFile
    /\ feed_xml = MissingFile /\ atom_xml = MissingFile /\ feed_json = MissingFile
    /\ last_call = NoCall
    /\ writer = "none" /\ published = 0
    /\ title = <<>> /\ slug = [r \in SlugRoutines |-> None]
    /\ days = 0 /\ at_midnight = FALSE /\ astro_data = None
    /\ request = NoRequest /\ result = None

BlogPostAddPostToIndex ==
    \E pm \in PostMetadatas :
        /\ HasRoom \/ FirstWithSlug(PostsOf(posts_index), pm.slug) > 0
        /\ DoAddPostToIndex(pm)
        /\ UNCHANGED otherVars

AstroAuraUpdateBlogIndexCall ==
    \E pd \in PostDatas :
        /\ HasRoom
        /\ DoAstroAuraUpdateBlogIndex(pd)
        /\ UNCHANGED otherVars

AuthenticUpdateBlogIndexCall ==
    \E pd \in PostDatas :
        /\ HasRoom
        /\ DoAuthenticUpdateBlogIndex(pd)
        /\ UNCHANGED otherVars

UpsertNext ==
    \/ BlogPostAddPostToIndex
    \/ AstroAuraUpdateBlogIndexCall
    \/ AuthenticUpdateBlogIndexCall

SpecUpsert == UpsertInit /\ [][UpsertNext]_vars

(***************************************************************************)
(* The synchronization specification: the writers of the feeds.            *)
(***************************************************************************)

SyncInit ==
    /\ posts_index \in {MissingFile, EmptyIndex}
    /\ sitemap \in {MissingFile, HandWrittenSitemap}
    /\ rss_xml = MissingFile
    /\ feed_xml = MissingFile /\ atom_xml = MissingFile /\ feed_json = MissingFile
    /\ last_call = NoCall
    /\ writer = "none" /\ published = 0
    /\ title = <<>> /\ slug = [r \in SlugRoutines |-> None]
    /\ days = 0 /\ at_midnight = FALSE /\ astro_data = None
    /\ request = NoRequest /\ result = None

EnhancedUpdateIndexes ==
    \E posts \in Batches :
        /\ DoEnhancedUpdateIndexes(posts)
        /\ UNCHANGED otherVars

AstroAuraGenerateAndPublishPost ==
    \E s \in Slugs :
        /\ HasRoom
        /\ DoAstroAuraGenerateAndPublishPost([slug |-> s, title |-> "first", ai_generated |-> FALSE])
        /\ UNCHANGED otherVars

SyncNext ==
    \/ EnhancedUpdateIndexes
    \/ AstroAuraGenerateAndPublishPost

SpecSync == SyncInit /\ [][SyncNext]_vars

(***************************************************************************)
(* The sitemap specification: the two update_sitemap.                      *)
(***************************************************************************)

SitemapInit ==
    /\ sitemap \in {MissingFile, HandWrittenSitemap}
    /\ posts_index = MissingFile /\ rss_xml = MissingFile
    /\ feed_xml = MissingFile /\ atom_xml = MissingFile /\ feed_json = MissingFile
    /\ last_call = NoCall
    /\ writer = "none" /\ published = 0
    /\ title = <<>> /\ slug = [r \in SlugRoutines |-> None]
    /\ days = 0 /\ at_midnight = FALSE /\ astro_data = None
    /\ request = NoRequest /\ result = None

BlogPostUpdateSitemapCall ==
    \E pm \in PostMetadatas :
        /\ DoBlogPostUpdateSitemap(pm)
        /\ UNCHANGED otherVars

EnhancedUpdateSitemapCall ==
    \E posts \in Batches :
        /\ DoEnhancedUpdateSitemap(posts)
        /\ UNCHANGED otherVars

SitemapNext ==
    \/ BlogPostUpdateSitemapCall
    \/ EnhancedUpdateSitemapCall

SpecSitemap == SitemapInit /\ [][SitemapNext]_vars

(***************************************************************************)
(* The registration specification: BlogPostGenerator registers posts with  *)
(* pairwise distinct slugs, the n-th post having the slug n, on files that *)
(* are missing, empty or unparseable.                                      *)
(***************************************************************************)

MaxRegistered == 5

RegisterInit ==
    /\ writer \in {"register", "astroaura"}
    /\ published = 0
    /\ posts_index \in {MissingFile, EmptyIndex, CorruptFile}
    /\ sitemap \in {MissingFile, HandWrittenSitemap, CorruptFile}
    /\ rss_xml \in {MissingFile, EmptyChannel, CorruptFile}
    /\ feed_xml = MissingFile /\ atom_xml = MissingFile /\ feed_json = MissingFile
    /\ last_call = NoCall
    /\ title = <<>> /\ slug = [r \in SlugRoutines |-> None]
    /\ days = 0 /\ at_midnight = FALSE /\ astro_data = None
    /\ request = NoRequest /\ result = None

RegisterNewPost ==
    /\ writer = "register"
    /\ published < MaxRegistered
    /\ published' = published + 1
    /\ DoRegisterNewPost(BlogPostMetadata(published + 1, "first"))
    /\ UNCHANGED <<writer, slugVars, moonVars, genVars>>

\* AstroAuraBlogGenerator.generate_and_publish_post run over the same files
RegisterAstroAuraPublish ==
    /\ writer = "astroaura"
    /\ published < MaxRegistered
    /\ published' = published + 1
    /\ DoAstroAuraGenerateAndPublishPost(NewPostData(published + 1))
    /\ UNCHANGED <<writer, slugVars, moonVars, genVars>>

RegisterNext ==
    \/ RegisterNewPost
    \/ RegisterAstroAuraPublish

SpecRegister == RegisterInit /\ [][RegisterNext]_vars

(***************************************************************************)
(* The trending topics.  A request holds the titles the four adapters      *)
(* collect and num_posts; a collected title is a text.  The fields         *)
(* astro_angle, keywords and image of a topic and the texts of a post are  *)
(* left out.                                                               *)
(***************************************************************************)
\* s.startswith(t)
StartsWith(s, t) == Len(t) <= Len(s) /\ SubSeq(s, 1, Len(t)) = t

WikipediaMaxTitles == 20
WikipediaMinLen == 3

\* the condition of the list comprehension of _fetch_wikipedia_trending
KeepsTitle(t) ==
    /\ Len(t) > WikipediaMinLen
    /\ ~StartsWith(StrLower(t), "main page")
    /\ ~StartsWith(StrLower(t), "special:")

\* TrendingTopicResearcher._fetch_wikipedia_trending on the titles of the
\* response
FetchWikipediaTrending(titles) == Prefix(SelectSeq(titles, KeepsTitle), WikipediaMaxTitles)

\* a deduplication that tells the spellings of a title apart
RECURSIVE UniqueTopicsCaseSensitive(_, _)
UniqueTopicsCaseSensitive(collected, seen) ==
    IF collected = <<>> THEN <<>>
    ELSE LET tl == StrStrip(Head(collected))
         IN  IF tl = "" \/ tl \in seen THEN UniqueTopicsCaseSensitive(Tail(collected), seen)
             ELSE <<tl>> \o UniqueTopicsCaseSensitive(Tail(collected), seen \cup {tl})

\* the loop of get_trending_topics that strips the titles, drops the empty
\* ones and keeps the first of the titles equal without case
RECURSIVE UniqueTopics(_, _)
UniqueTopics(collected, seen) ==
    IF collected = <<>> THEN <<>>
    ELSE LET tl == StrStrip(Head(collected))
             key == StrLower(tl)
         IN  IF tl = "" \/ key \in seen THEN UniqueTopics(Tail(collected), seen)
             ELSE <<tl>> \o UniqueTopics(Tail(collected), seen \cup {key})

IsLowerChar(c) == Len(c) = 1 /\ c \in {LowerOf[u] : u \in DOMAIN LowerOf}

\* re.match(r"^[A-Z][a-z]+$", word)
IsCapitalizedWord(word) ==
    /\ Len(word) >= 2
    /\ IsUpperChar(SubSeq(word, 1, 1))
    /\ \A i \in 2..Len(word) : IsLowerChar(SubSeq(word, i, i))

\* re.match(r"^[A-Z][a-z]+ [A-Z][a-z]+$", topic); a topic is stripped and
\* ends with no newline
LooksLikeName(topic) ==
    LET words == StrSplit(topic, " ")
    IN  Len(words) = 2 /\ IsCapitalizedWord(words[1]) /\ IsCapitalizedWord(words[2])

CategoryMapping ==
    << <<"technology", <<"ai", "tech", "app", "software", "robot", "digital">> >>,
       <<"finance", <<"stock", "market", "finance", "bank", "inflation", "econom">> >>,
       <<"health", <<"health", "virus", "disease", "wellness", "mental", "fitness">> >>,
       <<"environment", <<"climate", "earth", "sustain", "environment", "weather">> >>,
       <<"entertainment", <<"movie", "show", "music", "celebrity", "festival">> >>,
       <<"sports", <<"game", "team", "league", "tournament", "olympic">> >>,
       <<"spiritual", <<"astrology", "zodiac", "horoscope", "retrograde", "tarot", "manifest",
                        "moon", "mercury", "compatibility", "numerology">> >> >>

\* TrendingTopicResearcher._categorize
Categorize(topic) ==
    LET topic_l == StrLower(topic)
        hits == {i \in 1..Len(CategoryMapping) :
                    \E k \in 1..Len(CategoryMapping[i][2]) :
                        Contains(topic_l, CategoryMapping[i][2][k])}
    IN  IF hits = {} THEN "culture"
        ELSE CategoryMapping[CHOOSE i \in hits : \A j \in hits : i <= j][1]

TopicLimit == 20
MinPopularity == 30
TopPopularity == 100
PopularityStep == 3

\* max(30, 100 - idx * 3)
PopularityScore(idx) ==
    IF TopPopularity - idx * PopularityStep > MinPopularity
    THEN TopPopularity - idx * PopularityStep
    ELSE MinPopularity

DefaultPopularity == 85

DefaultTopic ==
    [topic |-> "Digital Detox Challenge", category |-> "wellness",
     popularity_score |-> DefaultPopularity]

\* the loop of get_trending_topics over enumerate(unique_topics[:20]),
\* from the index idx on
RECURSIVE Formatted(_, _)
Formatted(topics, idx) ==
    IF idx >= Len(topics) THEN <<>>
    ELSE LET topic == topics[idx + 1]
         IN  (IF LooksLikeName(topic) THEN <<>>
              ELSE <<[topic |-> topic, category |-> Categorize(topic),
                      popularity_score |-> PopularityScore(idx)]>>)
             \o Formatted(topics, idx + 1)

\* a get_trending_topics that returns the formatted topics as they are
GetTrendingTopicsNoDefault(adapters) ==
    LET collected == adapters[1] \o adapters[2] \o adapters[3] \o adapters[4]
        unique_topics == UniqueTopics(collected, {})
    IN  Formatted(Prefix(unique_topics, TopicLimit), 0)

\* TrendingTopicResearcher.get_trending_topics; adapters are the lists
\* _fetch_google_trends, _fetch_google_trends_regions,
\* _fetch_related_queries and _fetch_wikipedia_trending return
GetTrendingTopics(adapters) ==
    LET collected == adapters[1] \o adapters[2] \o adapters[3] \o adapters[4]
        unique_topics == UniqueTopics(collected, {})
        formatted == Formatted(Prefix(unique_topics, TopicLimit), 0)
    IN  IF formatted = <<>> THEN <<DefaultTopic>> ELSE formatted

\* BlogContentGenerator.generate_blog_post
GenerateBlogPost(topic) ==
    [trending_topic |-> topic.topic, ai_generated |-> TRUE,
     engagement_score |-> topic.popularity_score]

\* BlogContentGenerator.generate_daily_posts
GenerateDailyPosts(adapters, num_posts) ==
    LET trending_topics == GetTrendingTopics(adapters)
    IN  [i \in 1..Min(num_posts, Len(trending_topics)) |-> GenerateBlogPost(trending_topics[i])]

(***************************************************************************)
(* The specification of the trending topics: one call of                   *)
(* get_trending_topics or of generate_daily_posts on what the adapters     *)
(* collected.                                                              *)
(***************************************************************************)
MaxCollected == 2
MaxNumPosts == 2

\* the titles a source reports: blank, a person's name, one title in two
\* spellings and one more title
CollectedTitles == {"  ", "Taylor Swift", "moon phase", " Moon Phase", "Climate summit"}

\* the ways to cut a list into four consecutive parts
Cuts(n) == {c \in [1..3 -> 0..n] : c[1] <= c[2] /\ c[2] <= c[3]}

\* the four adapters' lists, of MaxCollected titles at most in all
AdapterResults ==
    UNION {{<<SubSeq(all, 1, c[1]), SubSeq(all, c[1] + 1, c[2]), SubSeq(all, c[2] + 1, c[3]),
              FetchWikipediaTrending(SubSeq(all, c[3] + 1, Len(all)))>> : c \in Cuts(Len(all))} :
             all \in SeqsUpTo(CollectedTitles, MaxCollected)}

\* a day on which the trends hold more titles than get_trending_topics
\* keeps: TopicLimit + 1 different titles, the one at the position name_at
\* (none when name_at is 0) being the name of a person
LongList(name_at) ==
    [i \in 1..(TopicLimit + 1) |->
        IF i = name_at THEN "Taylor Swift" ELSE "trend " \o SubSeq(LowerCase, i, i)]

\* the first TopicLimit of these come from Google trends, the rest from the
\* regional trends
LongAdapterResults ==
    {<<Prefix(LongList(name_at), TopicLimit), Drop(LongList(name_at), TopicLimit), <<>>, <<>>>> :
        name_at \in 0..(TopicLimit + 1)}

TrendingInit ==
    /\ request \in [adapters : AdapterResults \cup LongAdapterResults, num_posts : 0..MaxNumPosts]
    /\ result = None
    /\ days = 0 /\ at_midnight = FALSE /\ astro_data = None
    /\ title = <<>> /\ slug = [r \in SlugRoutines |-> None]
    /\ posts_index = MissingFile /\ sitemap = MissingFile /\ rss_xml = MissingFile
    /\ feed_xml = MissingFile /\ atom_xml = MissingFile /\ feed_json = MissingFile
    /\ last_call = NoCall /\ writer = "none" /\ published = 0

CallGetTrendingTopics ==
    /\ result = None
    /\ result' = Some([by |-> "get_trending_topics",
                       topics |-> GetTrendingTopics(request.adapters)])
    /\ UNCHANGED <<request, slugVars, moonVars, fileVars, capVars>>

CallGenerateDailyPosts ==
    /\ result = None
    /\ result' = Some([by |-> "generate_daily_posts",
                       posts |-> GenerateDailyPosts(request.adapters, request.num_posts)])
    /\ UNCHANGED <<request, slugVars, moonVars, fileVars, capVars>>

TrendingNext ==
    \/ CallGetTrendingTopics
    \/ CallGenerateDailyPosts

SpecTrending == TrendingInit /\ [][TrendingNext]_vars

(***************************************************************************)
(* EnhancedBlogGenerator.generate_trending_posts.  The request holds       *)
(* num_posts, the posts generate_daily_posts returns and what              *)
(* generate_with_free_apis does for a post; the result holds the slugs of  *)
(* the html files written under the posts directory.                       *)
(***************************************************************************)

\* generate_html_content with the name og_image bound
GenerateHtmlContentBound(post_data) == [html |-> post_data.slug]

\* EnhancedBlogGenerator.generate_html_content(post_data): the template is
\* one f-string that reads the name og_image, which neither the function nor
\* the module binds
GenerateHtmlContent(post_data) == Raises("NameError")

\* the position of the first post for which generate_html_content raises, 0
\* when there is none
FirstRaising(posts) ==
    LET raising == {i \in 1..Len(posts) : "raised" \in DOMAIN GenerateHtmlContent(posts[i])}
    IN  IF raising = {} THEN 0
        ELSE CHOOSE i \in raising : \A j \in raising : i <= j

\* the html files of the posts before the first raising one: one file per
\* slug
HtmlFiles(posts) ==
    LET k == FirstRaising(posts)
    IN  {posts[i].slug : i \in 1..(IF k = 0 THEN Len(posts) ELSE k - 1)}

\* EnhancedBlogGenerator.generate_trending_posts(num_posts), from the posts
\* generate_daily_posts returned on: an exception of generate_with_free_apis
\* is caught, one of generate_html_content is not, and update_indexes runs
\* after the loop over the posts
DoGenerateTrendingPosts(posts) ==
    IF FirstRaising(posts) = 0
    THEN DoEnhancedUpdateIndexes(posts)
    ELSE /\ last_call' = Raised("generate_trending_posts", posts)
         /\ UNCHANGED <<posts_index, sitemap, rss_xml, feed_xml, atom_xml, feed_json>>

\* what generate_with_free_apis does: it returns content, returns nothing
\* or raises
EnrichmentOutcomes == {"content", "none", "raises"}

\* generate_daily_posts(num_posts) returns no post for num_posts = 0 and
\* between 1 and num_posts posts otherwise
TrendingPostsRequests ==
    {r \in [num_posts : 0..MaxNumPosts, posts : SeqsUpTo({TrendingPost(s, "first") : s \in Slugs}, MaxNumPosts),
            api : EnrichmentOutcomes] :
        /\ Len(r.posts) <= r.num_posts
        /\ r.num_posts >= 1 => Len(r.posts) >= 1}

EnhancedInit ==
    /\ writer = "enhanced"
    /\ published = 0
    /\ posts_index \in {MissingFile, EmptyIndex, CorruptFile}
    /\ sitemap \in {MissingFile, HandWrittenSitemap}
    /\ rss_xml = MissingFile
    /\ feed_xml = MissingFile /\ atom_xml = MissingFile /\ feed_json = MissingFile
    /\ last_call = NoCall
    /\ title = <<>> /\ slug = [r \in SlugRoutines |-> None]
    /\ days = 0 /\ at_midnight = FALSE /\ astro_data = None
    /\ request \in TrendingPostsRequests
    /\ result = None

GenerateTrendingPosts ==
    /\ writer = "enhanced"
    /\ result = None
    /\ DoGenerateTrendingPosts(request.posts)
    /\ result' = Some([by |-> "generate_trending_posts",
                       raised |-> last_call'.raised,
                       html_files |-> HtmlFiles(request.posts)])
    /\ UNCHANGED <<request, capVars, slugVars, moonVars>>

EnhancedNext == GenerateTrendingPosts

SpecEnhanced == EnhancedInit /\ [][EnhancedNext]_vars

(***************************************************************************)
(* The orchestrator.  Time is counted in calendar days: days is today and  *)
(* the date of a post is the day it was generated on; published counts the *)
(* posts generated today.                                                  *)
(***************************************************************************)
PostsPerDayCap == 3

\* the record of generate_blog_post with its date
DatedTrendingPost(s, day) ==
    [slug |-> s, title |-> "first", date |-> day, astronomical_data |-> "snapshot",
     ai_generated |-> TRUE, trending_topic |-> "topic"]

\* BlogPostGenerator.extract_metadata_from_html on the html file of a post:
\* the file has the slug of its name and the date of the datetime attribute
\* in its HTML
ExtractMetadataFromHtml(file) ==
    [slug |-> file.slug, title |-> "first", date |-> file.date, ai_generated |-> TRUE]

\* max(posts, key=lambda x: x.get('date', '')): the first post of the
\* greatest date
LatestPost(posts) ==
    posts[CHOOSE i \in 1..Len(posts) :
              /\ \A j \in 1..Len(posts) : posts[j].date <= posts[i].date
              /\ \A j \in 1..(i - 1) : posts[j].date < posts[i].date]

\* AutomatedBlogOrchestrator.should_generate_new_post; a_day_ago tells
\* whether a latest post of yesterday is more than 24 hours old
ShouldGenerateNewPost(file, today, a_day_ago) ==
    IF file.state = "missing" THEN TRUE
    ELSE IF Unparseable(file) THEN TRUE
    ELSE IF file.posts = <<>> THEN TRUE
    ELSE LET latest == LatestPost(file.posts).date
         IN  IF latest < today - 1 \/ (latest = today - 1 /\ a_day_ago) THEN TRUE
             ELSE Cardinality({i \in 1..Len(file.posts) : file.posts[i].date = today})
                      < PostsPerDayCap

\* AutomatedBlogOrchestrator.generate_and_deploy_post: found tells whether
\* get_google_trends returned a topic; generate_trending_posts(1) runs on
\* the list of one post, and its exception is caught and logged
DoGenerateAndDeployPost(a_day_ago, found) ==
    IF ShouldGenerateNewPost(posts_index, days, a_day_ago) /\ found
    THEN /\ DoGenerateTrendingPosts(<<DatedTrendingPost(published + 1, days)>>)
         /\ published' = IF last_call'.raised THEN published ELSE published + 1
    ELSE /\ last_call' = Called("generate_and_deploy_post", <<>>)
         /\ UNCHANGED <<posts_index, sitemap, rss_xml, feed_xml, atom_xml, feed_json, published>>

(***************************************************************************)
(* The specification of the orchestrator: invocations of                   *)
(* generate_and_deploy_post over the days.                                 *)
(***************************************************************************)
MaxGenerated == 4
MaxOrchestratorDays == 2

OrchestratorInit ==
    /\ writer = "orchestrator"
    /\ published = 0
    /\ days = 0
    /\ posts_index \in {MissingFile, EmptyIndex, CorruptFile}
    /\ sitemap \in {MissingFile, HandWrittenSitemap}
    /\ rss_xml = MissingFile
    /\ feed_xml = MissingFile /\ atom_xml = MissingFile /\ feed_json = MissingFile
    /\ last_call = NoCall
    /\ title = <<>> /\ slug = [r \in SlugRoutines |-> None]
    /\ at_midnight = FALSE /\ astro_data = None
    /\ request = NoRequest /\ result = None

GenerateAndDeployPost ==
    /\ writer = "orchestrator"
    /\ published < MaxGenerated
    /\ \E a_day_ago \in BOOLEAN, found \in BOOLEAN : DoGenerateAndDeployPost(a_day_ago, found)
    /\ UNCHANGED <<writer, slugVars, moonVars, genVars>>

\* midnight passes
NextDay ==
    /\ writer = "orchestrator"
    /\ days < MaxOrchestratorDays
    /\ days' = days + 1
    /\ published' = 0
    /\ UNCHANGED <<writer, fileVars, slugVars, at_midnight, astro_data, genVars>>

\* another writer of the index: BlogPostGenerator.register_new_post on the
\* html file of a post dated today, the n-th post having the slug n
RegisterDatedPost ==
    /\ writer = "orchestrator"
    /\ Len(PostsOf(posts_index)) < MaxGenerated
    /\ DoRegisterNewPost(ExtractMetadataFromHtml(
            [slug |-> Len(PostsOf(posts_index)) + 1, date |-> days]))
    /\ UNCHANGED <<capVars, slugVars, moonVars, genVars>>

OrchestratorNext ==
    \/ GenerateAndDeployPost
    \/ RegisterDatedPost
    \/ NextDay

SpecOrchestrator == OrchestratorInit /\ [][OrchestratorNext]_vars

(***************************************************************************)
(* Overlapping runs of AstroAuraBlogGenerator.update_blog_index.  request  *)
(* holds the runs in flight: where each run is, the post it adds, the      *)
(* document it loaded, and seen, the runs that had finished writing when   *)
(* it loaded.  A run loads the file, opens it for writing, which empties   *)
(* it, and dumps its document.                                             *)
(***************************************************************************)
NumRuns == 3

Runs == 1..NumRuns

\* the post of a run; the slug 0 is the post of an earlier day
RunPost(r) == NewPostData(r)

StartedRun(r) ==
    [pc |-> "start", new_post |-> RunPost(r), loaded |-> MissingFile, seen |-> {},
     clobbered |-> FALSE]

\* what a run leaves alone
runFrame ==
    <<sitemap, rss_xml, feed_xml, atom_xml, feed_json, last_call, capVars, slugVars,
      moonVars, result>>

\* index_file.exists() and json.load(f), or {"posts": []}
LoadIndex(r) ==
    /\ request[r].pc = "start"
    /\ request' =
           [request EXCEPT ![r] =
               IF Unparseable(posts_index) THEN [@ EXCEPT !.pc = "raised"]
               ELSE [@ EXCEPT !.pc = "loaded", !.loaded = posts_index,
                              !.seen = {q \in Runs : request[q].pc = "done"}]]
    /\ UNCHANGED <<posts_index, runFrame>>

\* a run that reads the file again when it opens it for writing
TruncateIndexReread(r) ==
    /\ request[r].pc = "loaded"
    /\ request' = [request EXCEPT ![r].pc = "writing",
                                  ![r].loaded = IF Unparseable(posts_index) THEN @ ELSE posts_index]
    /\ posts_index' = CorruptFile
    /\ UNCHANGED runFrame

\* open(index_file, 'w'): the file is empty until the document is written
TruncateIndex(r) ==
    /\ request[r].pc = "loaded"
    /\ request' = [request EXCEPT ![r].pc = "writing"]
    /\ posts_index' = CorruptFile
    /\ UNCHANGED runFrame

\* json.dump(posts_index, f) and the close of the file: the document with
\* the new entry in front, cut to 100.  When another run has written the
\* file since this run opened it, the bytes of that document beyond the end
\* of this one stay in the file, which may then not parse.
DumpIndex(r) ==
    /\ request[r].pc = "writing"
    /\ \/ posts_index' = AstroAuraUpdateBlogIndex(request[r].loaded, request[r].new_post)
       \/ request[r].clobbered /\ posts_index' = CorruptFile
    /\ request' =
           [q \in Runs |->
               IF q = r THEN [request[q] EXCEPT !.pc = "done"]
               ELSE IF request[q].pc = "writing" THEN [request[q] EXCEPT !.clobbered = TRUE]
               ELSE request[q]]
    /\ UNCHANGED runFrame

RunsInit ==
    /\ request = [r \in Runs |-> StartedRun(r)]
    /\ posts_index \in {MissingFile, EmptyIndex, CorruptFile,
                        AstroAuraUpdateBlogIndex(EmptyIndex, NewPostData(0))}
    /\ writer = "astroaura" /\ published = 0
    /\ sitemap = MissingFile /\ rss_xml = MissingFile
    /\ feed_xml = MissingFile /\ atom_xml = MissingFile /\ feed_json = MissingFile
    /\ last_call = NoCall
    /\ title = <<>> /\ slug = [r \in SlugRoutines |-> None]
    /\ days = 0 /\ at_midnight = FALSE /\ astro_data = None
    /\ result = None

RunsNext ==
    \/ \E r \in Runs : LoadIndex(r)
    \/ \E r \in Runs : TruncateIndex(r)
    \/ \E r \in Runs : DumpIndex(r)

SpecRuns == RunsInit /\ [][RunsNext]_vars

(***************************************************************************)
(* The posts directory.  A file of the directory has the slug of its name  *)
(* and the date of the datetime attribute in its HTML, a day number.       *)
(***************************************************************************)
\* the for loop of scan_and_sync_all_posts over html_files, on the documents
\* docs = [index, sitemap, rss]: register_new_post on each file in turn; a
\* json.load that raises ends the loop and the call
RECURSIVE ScanLoop(_, _)
ScanLoop(docs, html_files) ==
    IF html_files = <<>> THEN docs
    ELSE IF Unparseable(docs.index) THEN [docs EXCEPT !.raised = TRUE]
    ELSE LET post_metadata == ExtractMetadataFromHtml(Head(html_files))
         IN  ScanLoop([index |-> AddPostToIndex(docs.index, post_metadata),
                       sitemap |-> BlogPostUpdateSitemap(docs.sitemap, post_metadata),
                       rss |-> BlogPostUpdateRss(docs.rss, post_metadata),
                       raised |-> FALSE],
                      Tail(html_files))

\* BlogPostGenerator.scan_and_sync_all_posts; html_files is the list
\* posts_dir.glob("*.html") yields, in the order the file system gives
DoScanAndSyncAllPosts(html_files) ==
    LET docs == ScanLoop([index |-> posts_index, sitemap |-> sitemap, rss |-> rss_xml,
                          raised |-> FALSE], html_files)
    IN  /\ posts_index' = docs.index
        /\ sitemap' = docs.sitemap
        /\ rss_xml' = docs.rss
        /\ last_call' = IF docs.raised THEN Raised("scan_and_sync_all_posts", <<>>)
                        ELSE Called("scan_and_sync_all_posts", <<>>)
        /\ UNCHANGED <<feed_xml, atom_xml, feed_json>>

(***************************************************************************)
(* The specification of the sync: add_post_to_index and                    *)
(* scan_and_sync_all_posts over directories of dated files.                *)
(***************************************************************************)
NumPostFiles == 2
MaxPostDay == 2

\* the directories: request holds the date of each of the files
Directories == [dates : [1..NumPostFiles -> 0..MaxPostDay]]

\* the file of the directory with the slug s
PostFile(s) == [slug |-> s, date |-> request.dates[s]]

\* the orders glob can list the files of the directory in
Listings ==
    {[i \in 1..NumPostFiles |-> PostFile(l[i])] :
        l \in {p \in [1..NumPostFiles -> 1..NumPostFiles] :
                  \A i, j \in 1..NumPostFiles : i # j => p[i] # p[j]}}

ScanInit ==
    /\ writer = "sync"
    /\ published = 0
    /\ request \in Directories
    /\ posts_index \in {MissingFile, EmptyIndex, CorruptFile}
    /\ sitemap \in {MissingFile, HandWrittenSitemap}
    /\ rss_xml = EmptyChannel
    /\ feed_xml = MissingFile /\ atom_xml = MissingFile /\ feed_json = MissingFile
    /\ last_call = NoCall
    /\ title = <<>> /\ slug = [r \in SlugRoutines |-> None]
    /\ days = 0 /\ at_midnight = FALSE /\ astro_data = None
    /\ result = None

ScanAddPostToIndex ==
    /\ writer = "sync"
    /\ \E s \in 1..NumPostFiles : DoAddPostToIndex(ExtractMetadataFromHtml(PostFile(s)))
    /\ UNCHANGED otherVars

ScanAndSyncAllPosts ==
    /\ writer = "sync"
    /\ \E html_files \in Listings : DoScanAndSyncAllPosts(html_files)
    /\ UNCHANGED otherVars

ScanNext ==
    \/ ScanAddPostToIndex
    \/ ScanAndSyncAllPosts

SpecScan == ScanInit /\ [][ScanNext]_vars

(***************************************************************************)
(* The scheduled publisher: AutoBlogPublisher over AstroAuraBlogGenerator. *)
(* A date is a whole number of days.  The request holds the schedule       *)
(* setting daily_post and today's date; the result holds the config of     *)
(* the process, the config before the last call, what the last call did    *)
(* and the dates on which publish_daily_post generated a post.             *)
(***************************************************************************)

\* should_publish_today with today >= last_date
ShouldPublishTodaySameDay(config, daily_post, today) ==
    IF ~daily_post THEN FALSE
    ELSE IF config.last_published = None THEN TRUE
    ELSE today >= config.last_published[1]

\* AutoBlogPublisher.should_publish_today
ShouldPublishToday(config, daily_post, today) ==
    IF ~daily_post THEN FALSE
    ELSE IF config.last_published = None THEN TRUE
    ELSE today > config.last_published[1]

\* publish_daily_post stamping last_published before the post is generated
DailyPostConfigStampedFirst(config, succeeded, now) ==
    IF succeeded
    THEN [last_published |-> Some(now),
          total_posts_published |-> config.total_posts_published + 1]
    ELSE [config EXCEPT !.last_published = Some(now)]

\* the config publish_daily_post leaves once should_publish_today has held:
\* the two fields are assigned after generate_and_publish_post has returned
DailyPostConfig(config, succeeded, now) ==
    IF succeeded
    THEN [last_published |-> Some(now),
          total_posts_published |-> config.total_posts_published + 1]
    ELSE config

\* the config publish_specific_topic leaves
SpecificTopicConfig(config, succeeded) ==
    IF succeeded
    THEN [config EXCEPT !.total_posts_published = @ + 1]
    ELSE config

\* generate_and_publish_post as the publisher calls it: open(post_path, 'w')
\* raises when the posts directory is not writable, before any file changes
DoPublisherGenerate(post_data, writable) ==
    IF writable
    THEN DoAstroAuraGenerateAndPublishPost(post_data)
    ELSE /\ last_call' = Raised("generate_and_publish_post", <<>>)
         /\ UNCHANGED <<posts_index, sitemap, rss_xml, feed_xml, atom_xml, feed_json>>

MaxPublisherDays == 2
MaxPublisherPosts == 3

\* load_config: the default config, or the config an earlier process saved
LoadedConfigs ==
    {[last_published |-> None, total_posts_published |-> 0],
     [last_published |-> Some(0), total_posts_published |-> 1]}

PublisherInit ==
    /\ writer = "publisher"
    /\ published = 0
    /\ posts_index \in {MissingFile, EmptyIndex, CorruptFile}
    /\ sitemap = MissingFile /\ rss_xml = MissingFile
    /\ feed_xml = MissingFile /\ atom_xml = MissingFile /\ feed_json = MissingFile
    /\ last_call = NoCall
    /\ title = <<>> /\ slug = [r \in SlugRoutines |-> None]
    /\ days = 0 /\ at_midnight = FALSE /\ astro_data = None
    /\ request \in [daily_post : BOOLEAN, today : {0}]
    /\ \E config \in LoadedConfigs :
        result = [config |-> config, before |-> config, returned |-> "none", daily |-> <<>>]

\* AutoBlogPublisher.publish_daily_post; midnight may pass while the post is
\* generated
PublishDailyPost ==
    /\ writer = "publisher"
    /\ result.config.total_posts_published < MaxPublisherPosts
    /\ IF ShouldPublishToday(result.config, request.daily_post, request.today)
       THEN \E s \in Slugs, writable \in BOOLEAN, elapsed \in 0..1 :
               /\ request.today + elapsed <= MaxPublisherDays
               /\ DoPublisherGenerate(NewPostData(s), writable)
               /\ request' = [request EXCEPT !.today = @ + elapsed]
               /\ result' =
                    [config |-> DailyPostConfig(result.config, ~last_call'.raised, request'.today),
                     before |-> result.config,
                     returned |-> IF last_call'.raised THEN "error" ELSE "published",
                     daily |-> IF last_call'.raised THEN result.daily
                               ELSE Append(result.daily, request.today)]
       ELSE /\ result' = [result EXCEPT !.before = result.config, !.returned = "skipped"]
            /\ UNCHANGED <<request, fileVars>>
    /\ UNCHANGED <<capVars, slugVars, moonVars>>

\* AutoBlogPublisher.publish_specific_topic(topic)
PublishSpecificTopic ==
    /\ writer = "publisher"
    /\ result.config.total_posts_published < MaxPublisherPosts
    /\ \E s \in Slugs, writable \in BOOLEAN :
        /\ DoPublisherGenerate(NewPostData(s), writable)
        /\ result' =
             [result EXCEPT !.config = SpecificTopicConfig(result.config, ~last_call'.raised),
                            !.before = result.config,
                            !.returned = IF last_call'.raised THEN "topic_error"
                                         ELSE "topic_published"]
    /\ UNCHANGED <<request, capVars, slugVars, moonVars>>

\* the clock of the process reaches the next date
PublisherNextDay ==
    /\ writer = "publisher"
    /\ request.today < MaxPublisherDays
    /\ request' = [request EXCEPT !.today = @ + 1]
    /\ UNCHANGED <<result, fileVars, capVars, slugVars, moonVars>>

PublisherNext ==
    \/ PublishDailyPost
    \/ PublishSpecificTopic
    \/ PublisherNextDay

SpecPublisher == PublisherInit /\ [][PublisherNext]_vars

(***************************************************************************)
(* Claims about the capacity of the index.                                 *)
(***************************************************************************)

\* the slugs n, n-1, ... of the min(n, cap) newest of n publications
NewestFirst(n, cap) == [i \in 1..Min(n, cap) |-> n + 1 - i]

\* C2: after n update_blog_index calls with distinct slugs on an empty index,
\* the index holds the min(n, cap) newest slugs, newest first, where cap is
\* 100 for AstroAuraBlogGenerator and 50 for AuthenticAstrologyBlogGenerator.
C2_BoundedGrowth ==
    /\ writer = "astroaura" => SlugsOf(PostsOf(posts_index)) = NewestFirst(published, 100)
    /\ writer = "authentic" => SlugsOf(PostsOf(posts_index)) = NewestFirst(published, 50)

\* more publications than either cap
C2_Witness ==
    /\ writer = "astroaura"
    /\ published > 100
    /\ Len(PostsOf(posts_index)) = 100
    /\ posts_index.posts[100].slug = published - 99

\* the URLs a feed has to list to agree with the index
IndexUrls == [i \in 1..Len(PostsOf(posts_index)) |-> PostUrl(PostsOf(posts_index)[i].slug)]

FeedUrls(feed) == IF feed.state = "ok" THEN UrlsOf(feed.entries) ELSE <<>>

\* C4: after every generate_and_publish_post, feed.xml, atom.xml and
\* feed.json list the slugs of posts_index.json, in its order.
C4_FeedsMatchIndex ==
    (writer = "astroaura" /\ published > 0) =>
        /\ FeedUrls(feed_xml) = IndexUrls
        /\ FeedUrls(atom_xml) = IndexUrls
        /\ FeedUrls(feed_json) = IndexUrls

\* C10: after any sequence of add_post_to_index calls the index holds no more
\* records than the cap.
C10_IndexWithinCap ==
    writer = "blogpost" => Len(PostsOf(posts_index)) <= 100

(***************************************************************************)
(* Claims about the upsert, the synchronization and the sitemap.           *)
(***************************************************************************)

\* C1: a second add_post_to_index call with the record of the call before it
\* leaves the posts list as the first call left it: the same length and the
\* same records in the same order.
C1_UpsertIdempotent ==
    [][(last_call'.op = "add_post_to_index" /\ last_call'.repeated)
           => PostsOf(posts_index') = PostsOf(posts_index)]_vars

\* the record was added twice in a row and sits behind another record
C1_Witness ==
    /\ last_call.op = "add_post_to_index"
    /\ last_call.repeated
    /\ FirstWithSlug(PostsOf(posts_index), last_call.arg.slug) = 2

\* C9: add_post_to_index with a slug of the index keeps the length and the
\* slug of every position and changes one record only; with a new slug it
\* puts the record at position 0 in front of the records as they were.
C9_UpsertFrame ==
    [][last_call'.op = "add_post_to_index" =>
           LET p == last_call'.arg
               old == PostsOf(posts_index)
               new == PostsOf(posts_index')
           IN  IF \E i \in 1..Len(old) : old[i].slug = p.slug
               THEN /\ Len(new) = Len(old)
                    /\ SlugsOf(new) = SlugsOf(old)
                    /\ \E i \in 1..Len(old) :
                           /\ old[i].slug = p.slug
                           /\ \A j \in 1..Len(old) : j # i => new[j] = old[j]
               ELSE new = <<p>> \o old]_vars

\* a record written by update_blog_index was updated where it was, behind
\* another record
C9_Witness ==
    /\ last_call.op = "add_post_to_index"
    /\ ~last_call.repeated
    /\ Len(PostsOf(posts_index)) = 2
    /\ posts_index.posts[2].slug = last_call.arg.slug
    /\ posts_index.posts[2].title = "revised"
    /\ "astronomical_data" \in DOMAIN posts_index.posts[2]

\* C3: after update_indexes(posts), posts_index.json, atom.xml, feed.json and
\* rss.xml hold the slugs of posts, all in the order of posts.
C3_UpdateIndexesConsistent ==
    last_call.op = "update_indexes" =>
        LET posts == last_call.arg
            urls == [i \in 1..Len(posts) |-> PostUrl(posts[i].slug)]
        IN  /\ posts_index.state = "ok"
            /\ SlugsOf(posts_index.posts) = SlugsOf(posts)
            /\ FeedUrls(atom_xml) = urls
            /\ FeedUrls(feed_json) = urls
            /\ FeedUrls(rss_xml) = urls

\* update_indexes wrote two posts over the files of an earlier publication
C3_Witness ==
    /\ last_call.op = "update_indexes"
    /\ Len(last_call.arg) = 2
    /\ last_call.arg[1].slug # last_call.arg[2].slug
    /\ feed_xml.state = "ok"

\* how many url entries of the sitemap hold the url
EntriesFor(url) ==
    Cardinality({i \in 1..Len(sitemap.entries) : sitemap.entries[i].url = url})

\* C5: after two update_sitemap calls in a row with the same posts, on a
\* sitemap.xml that exists, the sitemap holds exactly one url entry for the
\* URL of every post of the list.
C5_SitemapIdempotent ==
    (/\ last_call.op \in {"enhanced_update_sitemap", "blogpost_update_sitemap"}
     /\ last_call.repeated
     /\ sitemap.state = "ok") =>
        \A i \in 1..Len(last_call.arg) : EntriesFor(PostUrl(last_call.arg[i].slug)) = 1

\* C12: after publications through the two update_blog_index alone (the index
\* has no metadata block, which BlogPostGenerator alone writes into it), no
\* two records of posts_index.json have the same slug.
C12_NoDuplicateSlugs ==
    (/\ last_call.op \in {"astroaura_update_blog_index", "authentic_update_blog_index"}
     /\ ~posts_index.metadata.present) =>
        \A i, j \in 1..Len(PostsOf(posts_index)) :
            i # j => posts_index.posts[i].slug # posts_index.posts[j].slug

\* C13: update_indexes(posts) puts posts in front of the index and keeps
\* every record the index held behind them.
C13_UpdateIndexesPrepends ==
    [][last_call'.op = "update_indexes" =>
           LET posts == last_call'.arg
               old == PostsOf(posts_index)
               new == PostsOf(posts_index')
           IN  /\ Prefix(new, Len(posts)) = posts
               /\ \A i \in 1..Len(old) :
                      \E j \in (Len(posts) + 1)..Len(new) : new[j] = old[i]]_vars

\* C14: after a write by any index writer posts_index.json holds a metadata
\* block whose total_posts is the length of the posts list.
C14_MetadataTotalPosts ==
    (last_call.op # "none" /\ ~last_call.raised /\ posts_index.state = "ok") =>
        /\ posts_index.metadata.present
        /\ posts_index.metadata.total_posts = Len(posts_index.posts)

(***************************************************************************)
(* Claims about the registration of posts.                                 *)
(***************************************************************************)

\* C11: after register_new_post calls for distinct slugs, from an empty index
\* and an rss.xml channel with no items, the items of rss.xml are in the
\* order of the posts of posts_index.json, the newest first.
C11_RssOrderMatchesIndex ==
    (writer = "register" /\ posts_index.state = "ok" /\ rss_xml.state = "ok") =>
        FeedUrls(rss_xml) = IndexUrls

\* C15: a register_new_post call whose index update succeeds returns True and
\* keeps the index update; when sitemap.xml cannot be read the sitemap is
\* left alone and update_rss still adds the item; when rss.xml cannot be
\* read rss.xml is left alone and the sitemap update stays in place.
C15_FailureConfined ==
    [][(last_call'.op = "register_new_post" /\ ~Unparseable(posts_index)) =>
           LET p == last_call'.arg
               url == PostUrl(p.slug)
           IN  /\ ~last_call'.raised
               /\ posts_index'.state = "ok"
               /\ \E i \in 1..Len(posts_index'.posts) : posts_index'.posts[i].slug = p.slug
               /\ sitemap.state # "ok" =>
                      /\ sitemap' = sitemap
                      /\ rss_xml.state = "ok" => url \in {e.url : e \in Range(rss_xml'.entries)}
               /\ rss_xml.state # "ok" =>
                      /\ rss_xml' = rss_xml
                      /\ sitemap.state = "ok" => url \in {e.url : e \in Range(sitemap'.entries)}]_vars

\* a post was registered with an unparseable sitemap.xml: the index and
\* rss.xml hold it
C15_Witness ==
    /\ last_call.op = "register_new_post"
    /\ ~last_call.raised
    /\ sitemap.state = "corrupt"
    /\ Len(PostsOf(posts_index)) = 2
    /\ rss_xml.state = "ok" /\ Len(rss_xml.entries) = 2

\* C16: a register_new_post or an AstroAura generate_and_publish_post that
\* finds posts_index.json unparseable does not raise: it leaves the index
\* alone and still updates the sitemap and rss.xml, or the three feeds.
C16_UnparseableIndexConfined ==
    [][(/\ last_call'.op \in {"register_new_post", "generate_and_publish_post"}
        /\ Unparseable(posts_index)) =>
           /\ ~last_call'.raised
           /\ posts_index' = posts_index
           /\ last_call'.op = "register_new_post" =>
                  /\ sitemap.state = "ok" =>
                         PostUrl(last_call'.arg.slug) \in {e.url : e \in Range(sitemap'.entries)}
                  /\ rss_xml.state = "ok" =>
                         PostUrl(last_call'.arg.slug) \in {e.url : e \in Range(rss_xml'.entries)}
           /\ last_call'.op = "generate_and_publish_post" =>
                  /\ feed_xml'.state = "ok"
                  /\ atom_xml'.state = "ok"
                  /\ feed_json'.state = "ok"]_vars

\* C27: after any sequence of add_post_to_index and scan_and_sync_all_posts
\* calls the dates of the records of posts_index.json never increase along
\* the list.
C27_NewestFirst ==
    (writer = "sync" /\ posts_index.state = "ok") =>
        \A i, j \in 1..Len(posts_index.posts) :
            i < j => posts_index.posts[i].date >= posts_index.posts[j].date

(***************************************************************************)
(* Claims about the content generation.                                    *)
(***************************************************************************)

\* no provider the call tries returns a text
EveryProviderFails(by) ==
    /\ \A p \in DOMAIN request.free : request.free[p] # "ok"
    /\ by = "generate_authentic_content_with_ai" => request.openai # "ok"

\* C6: when every provider fails or has no key, the record returned by
\* generate_with_free_apis and by generate_authentic_content_with_ai has a
\* non-empty HTML body and a meta description of at most 155 characters.
C6_FallbackGuarantee ==
    (result # None /\ EveryProviderFails(result[1].by)) =>
        /\ Len(result[1].record.content) > 0
        /\ Len(result[1].record.meta_description) <= 155

\* C17: generate_with_free_apis does not raise whatever the four providers
\* do; its result comes from the first provider, in the order gemini,
\* anthropic, cohere, huggingface, that returned a text, and it is the
\* enhanced fallback exactly when none of the four did.
C17_FirstProviderOrFallback ==
    (result # None /\ result[1].by = "generate_with_free_apis") =>
        LET r == result[1].record
            failed(p) == request.free[p] # "ok"
        IN  /\ "raised" \notin DOMAIN r
            /\ (r.api_used = "Enhanced Fallback System") <=>
                   \A i \in 1..Len(ApiPriority) : failed(ApiPriority[i])
            /\ \A i \in 1..Len(ApiPriority) :
                   (/\ ~failed(ApiPriority[i])
                    /\ \A j \in 1..(i - 1) : failed(ApiPriority[j])) =>
                       r.api_used = ApiUsed[ApiPriority[i]]

(***************************************************************************)
(* Claims about the trending topics.                                       *)
(***************************************************************************)
\* C18: get_trending_topics never returns an empty list, and returns the one
\* default topic when the adapters collected nothing or every collected
\* title is blank or looks like a person's name; generate_daily_posts(n)
\* with n >= 1 returns at least one post.
C18_NeverEmpty ==
    result # None =>
        LET titles == UNION {Range(request.adapters[a]) : a \in 1..4}
            surviving == {t \in titles : StrStrip(t) # "" /\ ~LooksLikeName(StrStrip(t))}
        IN  /\ result[1].by = "get_trending_topics" =>
                   /\ Len(result[1].topics) >= 1
                   /\ surviving = {} => result[1].topics = <<DefaultTopic>>
            /\ (result[1].by = "generate_daily_posts" /\ request.num_posts >= 1) =>
                   Len(result[1].posts) >= 1

\* generate_daily_posts(2) returned the one post of the default topic although
\* the adapters had collected titles
C18_Witness ==
    /\ result # None
    /\ result[1].by = "generate_daily_posts"
    /\ request.num_posts = 2
    /\ request.adapters[1] # <<>>
    /\ result[1].posts = <<GenerateBlogPost(DefaultTopic)>>

\* C22: the topics get_trending_topics returns are the first 20 of the
\* deduplicated topics that do not look like a person's name (the default
\* topic when there is none).
C22_FilterBeforeTruncate ==
    (result # None /\ result[1].by = "get_trending_topics") =>
        LET a == request.adapters
            NotName(t) == ~LooksLikeName(t)
            surviving == SelectSeq(UniqueTopics(a[1] \o a[2] \o a[3] \o a[4], {}), NotName)
            expected == Prefix(surviving, TopicLimit)
            topics == result[1].topics
        IN  IF expected = <<>> THEN topics = <<DefaultTopic>>
            ELSE [i \in 1..Len(topics) |-> topics[i].topic] = expected

\* C23: over the titles of Google trends, the regional trends, the related
\* queries and Wikipedia in this order, no two topics get_trending_topics
\* returns are equal without case, each is the first title of its spelling
\* group as that title was written, and the topics follow the order of
\* these first titles.
C23_FirstOccurrenceKept ==
    (/\ result # None
     /\ result[1].by = "get_trending_topics"
     /\ result[1].topics # <<DefaultTopic>>) =>
        LET a == request.adapters
            collected == a[1] \o a[2] \o a[3] \o a[4]
            keys == [j \in 1..Len(collected) |-> StrLower(StrStrip(collected[j]))]
            topics == result[1].topics
            First(t) == CHOOSE j \in 1..Len(collected) :
                            /\ keys[j] = StrLower(t)
                            /\ \A k \in 1..(j - 1) : keys[k] # StrLower(t)
        IN  /\ \A i \in 1..Len(topics) :
                   /\ \E j \in 1..Len(collected) : keys[j] = StrLower(topics[i].topic)
                   /\ StrStrip(collected[First(topics[i].topic)]) = topics[i].topic
            /\ \A i, j \in 1..Len(topics) :
                   i < j => /\ StrLower(topics[i].topic) # StrLower(topics[j].topic)
                            /\ First(topics[i].topic) < First(topics[j].topic)

\* Google trends reported "moon phase" and Wikipedia " Moon Phase": the one
\* topic returned is "moon phase"
C23_Witness ==
    /\ result # None
    /\ result[1].by = "get_trending_topics"
    /\ request.adapters[1] = <<"moon phase">>
    /\ request.adapters[4] = <<" Moon Phase">>
    /\ [i \in 1..Len(result[1].topics) |-> result[1].topics[i].topic] = <<"moon phase">>

C30_CompletesAndIndexes ==
    (/\ writer = "enhanced"
     /\ result # None /\ result[1].by = "generate_trending_posts"
     /\ request.num_posts >= 1) =>
        /\ ~result[1].raised
        /\ result[1].html_files = Range(SlugsOf(request.posts))
        /\ posts_index = EnhancedIndex(request.posts)
        /\ atom_xml = EnhancedFeed(request.posts)
        /\ feed_json = EnhancedFeed(request.posts)
        /\ rss_xml = EnhancedRssFeed(request.posts)

(***************************************************************************)
(* Claims about overlapping runs.                                          *)
(***************************************************************************)
\* C20: when two update_blog_index runs have both read posts_index.json
\* before either wrote it, the run that writes later wins: once it has
\* written, the post the earlier writer added is missing from the index,
\* and an index that parses starts with the later writer's post.
C20_LaterWriterWins ==
    [][\A r, q \in Runs :
           (/\ r # q
            /\ request[r].pc = "writing" /\ request'[r].pc = "done"
            /\ request[q].pc = "done"
            /\ q \notin request[r].seen /\ r \notin request[q].seen) =>
               /\ \A i \in 1..Len(PostsOf(posts_index')) :
                      posts_index'.posts[i].slug # request[q].new_post.slug
               /\ posts_index'.state = "ok" =>
                      posts_index'.posts[1].slug = request[r].new_post.slug]_vars

\* runs 1 and 2 both read the index of one earlier post, 1 wrote, then 2
\* wrote: the index holds the post of 2 and the earlier post, not the post of 1
C20_Witness ==
    /\ request[1].pc = "done" /\ request[2].pc = "done"
    /\ request[1].seen = {} /\ request[2].seen = {}
    /\ request[1].loaded.state = "ok" /\ request[1].loaded = request[2].loaded
    /\ posts_index.state = "ok"
    /\ SlugsOf(posts_index.posts) = <<2, 0>>

\* C21: the meta description generate_with_free_apis builds from a provider's
\* text with _generate_meta_description mentions AstroAura, also when it has
\* been cut to 155 characters.
C21_MetaMentionsAstroAura ==
    (/\ result # None
     /\ result[1].by = "generate_with_free_apis"
     /\ result[1].record.ai_generated) =>
        /\ result[1].record.meta_description =
               FreeApiGenerateMetaDescription(request.text, request.topic)
        /\ Contains(StrLower(result[1].record.meta_description), "astroaura")

(***************************************************************************)
(* Claims about the scheduled publisher.                                   *)
(***************************************************************************)

\* C28: publish_daily_post publishes at most one post per calendar day: the
\* dates on which it generated a post are strictly increasing, each later
\* than the date of last_published the call found, and a call on the date of
\* last_published skips.
C28_OneDailyPostPerDay ==
    writer = "publisher" =>
        /\ \A i, j \in 1..Len(result.daily) : i < j => result.daily[i] < result.daily[j]
        /\ (result.returned = "published" /\ result.before.last_published # None) =>
               result.daily[Len(result.daily)] > result.before.last_published[1]
        /\ (result.returned = "published") => request.daily_post
        /\ (result.returned = "skipped" /\ request.daily_post) =>
               /\ result.config.last_published # None
               /\ result.config = result.before

\* a second daily post has been published and a further call on its date
\* has skipped
C28_Witness ==
    /\ writer = "publisher"
    /\ Len(result.daily) = 2
    /\ result.returned = "skipped"
    /\ result.config.last_published = Some(request.today)
    /\ result.daily[2] = request.today

\* C29: last_published and total_posts_published change only on success: a
\* call in which generate_and_publish_post raised returns with both fields
\* as they were, a successful publication raises total_posts_published by
\* exactly 1, only publish_daily_post changes last_published, and the
\* counter never decreases.
C29_ChangeOnlyOnSuccess ==
    writer = "publisher" =>
        /\ result.returned \in {"error", "topic_error", "skipped"} => result.config = result.before
        /\ result.returned \in {"published", "topic_published"} =>
               result.config.total_posts_published = result.before.total_posts_published + 1
        /\ result.returned = "topic_published" =>
               result.config.last_published = result.before.last_published
        /\ result.returned = "published" =>
               /\ result.config.last_published # None
               /\ result.daily[Len(result.daily)] <= result.config.last_published[1]
               /\ result.config.last_published[1] <= request.today
        /\ result.config.total_posts_published >= result.before.total_posts_published
        /\ result.returned = "error" =>
               ShouldPublishToday(result.config, request.daily_post, request.today)

\* generate_and_publish_post has raised inside publish_daily_post after an
\* earlier daily post of the process
C29_Witness ==
    /\ writer = "publisher"
    /\ result.returned = "error"
    /\ last_call.raised
    /\ result.daily # <<>>
    /\ result.config.total_posts_published >= 1

(***************************************************************************)
(* Claims about the slug routines and the moon phase.                      *)
(***************************************************************************)

HasDoubleHyphen(s) == \E i \in 1..(Len(s) - 1) : s[i] = "-" /\ s[i + 1] = "-"

WellFormedSlug(s) ==
    /\ \A i \in 1..Len(s) : s[i] # "B" /\ ~IsSpaceChar(s[i])
    /\ ~HasDoubleHyphen(s)
    /\ s = <<>> \/ (s[1] # "-" /\ s[Len(s)] # "-")

\* C7: every slug a slug routine returns is lowercase, holds no whitespace and
\* no run of two or more hyphens, and neither starts nor ends with a hyphen.
C7_SlugWellFormed ==
    \A r \in SlugRoutines : slug[r] # None => WellFormedSlug(slug[r][1])

\* C24: the slug each of the three slug routines returns is at most 50
\* characters long.
C24_SlugAtMostFifty ==
    \A r \in SlugRoutines : slug[r] # None => Len(slug[r][1]) <= SlugMaxLen

\* C25: mercury_retrograde is true exactly when the calendar day lies in
\* April 1 to April 25, August 5 to August 28 or December 1 to December 23,
\* first and last day included, at any time of the day.
C25_RetrogradeRanges ==
    astro_data # None =>
        LET date == astro_data[1].date
            InRange == \/ date.month = 4 /\ date.day \in 1..25
                       \/ date.month = 8 /\ date.day \in 5..28
                       \/ date.month = 12 /\ date.day \in 1..23
        IN  astro_data[1].mercury_retrograde <=> InRange

\* C26: for every month and every day of 1..31, _get_sun_sign returns the
\* sign that ends at the month's boundary day when the day is on or before
\* it, and the next sign of the zodiac when the day is after it (Capricorn
\* after December 22).
C26_SunSignBoundaries ==
    (result # None /\ result[1].by = "_get_sun_sign") =>
        LET Boundary == <<20, 19, 21, 20, 21, 21, 23, 23, 23, 23, 22, 22>>
            Zodiac == <<"Capricorn", "Aquarius", "Pisces", "Aries", "Taurus", "Gemini",
                        "Cancer", "Leo", "Virgo", "Libra", "Scorpio", "Sagittarius">>
            m == request.month
        IN  result[1].sign =
                IF request.day <= Boundary[m] THEN Zodiac[m] ELSE Zodiac[(m % 12) + 1]

\* December 23, the day after the last boundary, is given Capricorn
C26_Witness ==
    /\ result # None
    /\ result[1].by = "_get_sun_sign"
    /\ request.month = 12 /\ request.day = 23
    /\ result[1].sign = "Capricorn"

\* d lies in lo <= d < hi, for whole numbers lo and hi
Within(d, lo, hi) == ~Below(d, lo) /\ Below(d, hi)

\* the phase table as the claim states it: <<lo, hi, phase>> is lo <= d < hi
PhaseTable ==
    { <<0, 1, "New Moon">>, <<1, 7, "Waxing Crescent">>, <<7, 8, "First Quarter">>,
      <<8, 14, "Waxing Gibbous">>, <<14, 16, "Full Moon">>, <<16, 22, "Waning Gibbous">>,
      <<22, 23, "Last Quarter">>, <<23, 30, "Waning Crescent">> }

\* C8: the moon phase is the phase of the one row of the table that holds
\* d = days mod 29.53; d = 0 is New Moon, d = 15 Full Moon, d = 29 Waning
\* Crescent.
C8_MoonPhaseTable ==
    astro_data # None =>
        LET a == astro_data[1]
            d == a.days_since_new_moon
        IN  /\ \E row \in PhaseTable : Within(d, row[1], row[2]) /\ a.moon_phase = row[3]
            /\ \A row \in PhaseTable : Within(d, row[1], row[2]) => a.moon_phase = row[3]
            /\ (d.h = 0 /\ d.e = 0) => a.moon_phase = "New Moon"
            /\ (d.h = 1500 /\ d.e = 0) => a.moon_phase = "Full Moon"
            /\ (d.h = 2900 /\ d.e = 0) => a.moon_phase = "Waning Crescent"

\* a day whose d falls just below a whole number: 2954 days give
\* d = 1 - 100 eps, which is still New Moon
C8_Witness ==
    /\ astro_data # None
    /\ days = 2954
    /\ astro_data[1].moon_phase = "New Moon"

(***************************************************************************)
(* Specifications.                                                         *)
(***************************************************************************)

SlugNext ==
    \/ CallAstroAuraCreateSlug
    \/ CallAuthenticCreateSlug
    \/ CallTrendingCreateSlug

SpecSlug == SlugInit /\ [][SlugNext]_vars

MoonNext == GetCurrentAstronomicalData

SpecMoon == MoonInit /\ [][MoonNext]_vars

====
